---- MODULE Spec2Model ----
(***************************************************************************)
(* golop: reconstruction of compile history from a portage emerge log.    *)
(*                                                                         *)
(* The module models the two log scans that return the completed-compile  *)
(* list (findCompileHist of util.go and parselog of main.go) as state     *)
(* machines that consume one log line per step, and the pure function     *)
(* medDuration.  It further models the patterns of init on texts, the     *)
(* scan findMedDurations, which fills latestStart, runningCompiles on a    *)
(* process snapshot, showCurrent, the modes of main, and the scans on a    *)
(* log stream that fails.  Each has its own specification: Spec, SpecMed,  *)
(* SpecRe, SpecLatest, SpecRc, SpecSc, SpecMain, SpecIo.  SpecRun is a     *)
(* run of main from the log to the mode's output, SpecBoth reads one log   *)
(* with findCompileHist and then with findMedDurations, and SpecFm is      *)
(* findMainProc on a chain of ancestor processes.                          *)
(*                                                                         *)
(* Units: a time.Time built by time.Unix(ts, 0) is modelled by ts (epoch  *)
(* seconds) and a time.Duration by its number of seconds.  Timestamp      *)
(* tokens are character sequences: a decimal numeral (1 or 2) or a        *)
(* non-numeric text, followed by one delimiter character; for the         *)
(* non-numeric text strconv.ParseInt returns 0 and a syntax error.        *)
(*                                                                         *)
(* Timestamps stay in the range where time.Time.Sub does not saturate.    *)
(*                                                                         *)
(* A message is modelled by the branch of the scan's if-chain it takes    *)
(* (cat) and by the fields the matching pattern captures.                 *)
(*                                                                         *)
(* Definitions set right before a definition of the code and named after  *)
(* it (StoreSessionKeepFirst before StoreSession, ...) are faulty variants *)
(* of that code, used to show that a property depends on it.              *)
(***************************************************************************)
EXTENDS Integers, Sequences, FiniteSets, TLC

\* ------------------------------------------------------------------ bounds
MaxLines == 4      \* lines of the log that a scan consumes
MaxDurs == 4       \* longest duration list handed to medDuration
MaxDurVal == 3     \* largest duration in a list handed to medDuration
MaxProcs == 3      \* processes in the snapshot that runningCompiles walks
MaxNow == 3        \* latest reading of the clock, in half seconds after the start
MaxCompiles == 2   \* completed compiles that parselog hands to main
MaxRunLines == 3   \* lines of the log of a whole run of the program
MaxChain == 3      \* ancestors of the process handed to findMainProc
MaxIter == 3       \* iterations of the loop of findMainProc that are followed

\* ------------------------------------------------------------ input domain
\* the package-version pairs that occur in the modelled logs
\* (a version has at least two characters: the patterns read it as \d[^ ]+)
PkgVers == {<<"a/x", "1.0">>, <<"a/x", "2.0">>, <<"b/y", "1.0">>}

\* characters of a first token; a token is a sequence of characters
DigitChars == <<"0", "1", "2", "3", "4", "5", "6", "7", "8", "9">>
IsDigit(ch) == \E i \in 1..Len(DigitChars) : DigitChars[i] = ch
DigitVal(ch) == (CHOOSE i \in 1..Len(DigitChars) : DigitChars[i] = ch) - 1
GoodTok(n) == <<DigitChars[n + 1], ":">>
BadTok == <<"x", ":">>
\* two parseable tokens and an unparseable one: with ParseInt's 0 for the
\* latter, every order of a start and an end timestamp occurs
Toks == {GoodTok(1), GoodTok(2), BadTok}

\* a line with fewer than two whitespace-separated fields
ShortLine == [short |-> TRUE, tok |-> BadTok, cat |-> "other",
              pkg |-> "", ver |-> "", ith |-> 0]

\* lines with a first token and a message: build-start and build-complete
\* lines for every pair and token, removal-start lines for two pairs, and
\* messages that match no pattern
FullLines ==
    { [short |-> FALSE, tok |-> t, cat |-> "start", pkg |-> pv[1], ver |-> pv[2], ith |-> 2] :
        t \in Toks, pv \in PkgVers }
    \cup
    { [short |-> FALSE, tok |-> GoodTok(1), cat |-> "start", pkg |-> pv[1], ver |-> pv[2], ith |-> 1] :
        pv \in PkgVers }
    \cup
    { [short |-> FALSE, tok |-> t, cat |-> "complete", pkg |-> pv[1], ver |-> pv[2], ith |-> 2] :
        t \in Toks, pv \in PkgVers }
    \cup
    { [short |-> FALSE, tok |-> t, cat |-> "unmerge", pkg |-> pv[1], ver |-> pv[2], ith |-> 0] :
        t \in {GoodTok(1), BadTok}, pv \in {<<"a/x", "1.0">>} }
    \cup
    { [short |-> FALSE, tok |-> t, cat |-> "other", pkg |-> "", ver |-> "", ith |-> 0] :
        t \in {GoodTok(1), BadTok} }
    \cup
    { [short |-> FALSE, tok |-> GoodTok(1), cat |-> "reset", pkg |-> "", ver |-> "", ith |-> 0] }

Lines == FullLines \cup {ShortLine}

\* findCompileHist reads neither ith nor the discarding messages: its logs
\* are drawn without the lines that differ from another line only in those
LinesOf(f) ==
    IF f = "parselog" THEN Lines
    ELSE { l \in Lines : l.cat # "reset" /\ ~(l.cat = "start" /\ l.ith = 1) }

NoLine == [short |-> TRUE, tok |-> BadTok, cat |-> "none", pkg |-> "", ver |-> "", ith |-> 0]

\* ------------------------------------------------------------------- state
VARIABLES
    fn,          \* the scan that runs: "findCompileHist" or "parselog"
    pc,          \* "scan" while lines are consumed, "done" after the return
    lineno,      \* lineno of the scan
    compiles,    \* []compileHist, the completed compiles
    inprogress,  \* map[string]compileHist, in-flight builds by composite key
    unmerges,    \* map[string]compileHist, removals by composite key
    durations,   \* map[string][]time.Duration by package name
    running,     \* the running argument of findCompileHist (read at the end)
    nip,         \* the in-progress map the scan returns
    diag,        \* number of diagnostics written to os.Stderr
    cur,         \* history: the line consumed by the last step
    hStarts,     \* history: per key, timestamps of the (last two) build-start
                 \* lines read since the last build-complete line for the key
    hLog,        \* history: while a log is recorded to be read again, its lines and
                 \* the DurationHistory before each; the mode is "off" otherwise
    hPrev,       \* history: compiles, inprogress, unmerges, durations and
                 \* hStarts as they were before the last step
    medDurs,     \* medDuration: the slice durs (sorted in place by the call)
    medOut,      \* medDuration: the result
    medPc,       \* medDuration: "call" before, "ret" after, "idle" in a scan
    hMedIn,      \* history: the list as it was passed to medDuration
    latestStart, \* map[string]int64, the package-level variable latestStart
    pkg2md,      \* findMedDurations: the map it returns
    reMsg,       \* pattern matching: the message, a sequence of characters
    reOut,       \* pattern matching: what the patterns find in reMsg
    rePc,        \* pattern matching: "call" before, "ret" after, else "idle"
    rcProcs,     \* runningCompiles: the process snapshot, a sequence
    rcI,         \* runningCompiles: number of processes walked
    rcGone,      \* history: the processes found gone when inspected
    rcPkgs,      \* runningCompiles: currpkgs
    rcPc,        \* runningCompiles: "loop", "returned", "error", "panic"
    scCurr,      \* showCurrent: the argument curr
    scHist,      \* showCurrent: the argument history
    scNow,       \* showCurrent: the last reading of time.Now()
    scRet,       \* showCurrent: ret
    scLongest,   \* showCurrent: longest
    scPc,        \* showCurrent: "loop", "returned"
    hIter,       \* history: key and elapsed time of every iteration, in order
    mnArgs,      \* main: the flags, whether the log opens, what parselog returns
    mnOut,       \* main: what it has printed, in order
    mnExit,      \* main: the exit status, -1 while it runs
    mnPc,        \* main: "main", "exited"
    readErr,     \* the log stream has failed: scanner.Err() is not nil
    fmProcs,     \* findMainProc: the ancestors of p, the parent first
    fmPp,        \* findMainProc: the ancestor the outer pp points to, 0 for nil
    fmSeen,      \* history: the ancestors whose command line the loop has read
    fmRet,       \* findMainProc: the process returned (0 for nil), and the error
    fmPc         \* findMainProc: "idle", "entry", "loop", "returned"

\* the state of the scans beside the variables the loops of findCompileHist
\* and parselog write
scanExt == <<latestStart, pkg2md>>
reVars == <<reMsg, reOut, rePc>>
\* the state of the other functions of the program
rcVars == <<rcProcs, rcI, rcGone, rcPkgs, rcPc>>
scVars == <<scCurr, scHist, scNow, scRet, scLongest, scPc, hIter>>
mnVars == <<mnArgs, mnOut, mnExit, mnPc>>
fmVars == <<fmProcs, fmPp, fmSeen, fmRet, fmPc>>
\* the log stream and the process tree
ioVars == <<readErr, fmVars>>
toolVars == <<reVars, rcVars, scVars, mnVars, ioVars>>

vars == <<fn, pc, lineno, compiles, inprogress, unmerges, durations, running,
          nip, diag, cur, hStarts, hPrev, hLog, medDurs, medOut, medPc, hMedIn,
          scanExt, toolVars>>


\* ----------------------------------------------------------------- Go maps
EmptyMap == [x \in {} |-> 0]

\* the values of the variables of a function that does not run
ReIdle == reMsg = << >> /\ reOut = EmptyMap /\ rePc = "idle"
RcIdle ==
    rcProcs = << >> /\ rcI = 0 /\ rcGone = {} /\ rcPkgs = << >> /\ rcPc = "idle"
ScIdle ==
    /\ scCurr = EmptyMap /\ scHist = EmptyMap /\ scNow = 0 /\ scRet = << >>
    /\ scLongest = 0 /\ scPc = "idle" /\ hIter = << >>
MnIdle == mnArgs = EmptyMap /\ mnOut = << >> /\ mnExit = 0 - 1 /\ mnPc = "idle"
NoReturn == [proc |-> 0, err |-> FALSE]
FmIdle ==
    fmProcs = << >> /\ fmPp = 0 /\ fmSeen = << >> /\ fmRet = NoReturn /\ fmPc = "idle"
IoIdle == readErr = FALSE /\ FmIdle
ToolsIdle == ReIdle /\ RcIdle /\ ScIdle /\ MnIdle /\ IoIdle
ScanExtIdle == latestStart = EmptyMap /\ pkg2md = EmptyMap
NoLog == [mode |-> "off", lines |-> << >>, durs |-> << >>]
LogIdle == hLog = NoLog
MapPut(m, k, v) == [x \in (DOMAIN m) \cup {k} |-> IF x = k THEN v ELSE m[x]]
MapDel(m, k) == [x \in (DOMAIN m) \ {k} |-> m[x]]

\* m[k] of Go: the stored value, or the zero value when the key is absent
MapGet(m, k, zero) == IF k \in DOMAIN m THEN m[k] ELSE zero

\* ------------------------------------------------------- library functions
\* fields[0][:len(fields[0])-1]
StripLast(tok) == SubSeq(tok, 1, Len(tok) - 1)

RECURSIVE DecimalValue(_)
DecimalValue(s) ==
    IF s = << >> THEN 0
    ELSE 10 * DecimalValue(SubSeq(s, 1, Len(s) - 1)) + DigitVal(s[Len(s)])

\* strconv.ParseInt(s, 10, 0) on unsigned decimal text: the value, or 0 and
\* an error for text that is empty or holds a non-digit
ParseInt(s) ==
    IF s # << >> /\ \A i \in 1..Len(s) : IsDigit(s[i])
    THEN [val |-> DecimalValue(s), err |-> FALSE]
    ELSE [val |-> 0, err |-> TRUE]

\* time.Unix(ts, 0), as epoch seconds
Unix(ts) == ts

\* time.Time.Sub, in seconds
SubSwapped(end, start) == start - end
Sub(end, start) == end - start

\* the zero time.Time precedes every time.Unix(ts, 0) of the model
ZeroTime == 0 - 1

\* fmt.Sprintf("%v-%v", package, version)
PkgVer(p, v) == p \o "-" \o v

Keys == { PkgVer(pv[1], pv[2]) : pv \in PkgVers }

\* the compileHist literal of a build-start or removal-start line
NewCompileHist(dt, p, v) ==
    [start |-> dt, end |-> ZeroTime, dur |-> 0, pkgname |-> p, pkgversion |-> v]

\* the zero compileHist
ZeroCompileHist ==
    [start |-> ZeroTime, end |-> ZeroTime, dur |-> 0, pkgname |-> "", pkgversion |-> ""]

\* ------------------------------------------------- pieces of the scan loop
\* ts, err := strconv.ParseInt(fields[0][:len(fields[0])-1], 10, 0)
Ts(line) == ParseInt(StripLast(line.tok))
\* dt := time.Unix(ts, 0)
Dt(line) == Unix(Ts(line).val)

LineKey(line) == PkgVer(line.pkg, line.ver)

\* parselog only: the messages that discard all open sessions
Discards(line) == line.cat = "reset" \/ (line.cat = "start" /\ line.ith = 1)

\* inprogress[key] = c / unmerges[key] = c of a start line
StoreSessionKeepFirst(m, line) ==
    IF LineKey(line) \in DOMAIN m THEN m
    ELSE MapPut(m, LineKey(line), NewCompileHist(Dt(line), line.pkg, line.ver))
StoreSession(m, line) ==
    MapPut(m, LineKey(line), NewCompileHist(Dt(line), line.pkg, line.ver))

\* c, ok := inprogress[pkgver]
LookupIgnoringOk(m, k) == [ok |-> TRUE, c |-> MapGet(m, k, ZeroCompileHist)]
Lookup(m, k) == [ok |-> k \in DOMAIN m, c |-> MapGet(m, k, ZeroCompileHist)]

\* if c, ok = unmerges[pkgver]; ok { delete(unmerges, pkgver) }
ConsumeUnmergeKept(um, k) == um
ConsumeUnmerge(um, k) == IF k \in DOMAIN um THEN MapDel(um, k) ELSE um

\* c.end = dt; c.dur = c.end.Sub(c.start)
CompleteDurBeforeEnd(c, dt) == [c EXCEPT !.end = dt, !.dur = Sub(c.end, c.start)]
Complete(c, dt) == [c EXCEPT !.end = dt, !.dur = Sub(dt, c.start)]

\* compiles = append(compiles, c)
PrependCompile(cs, c) == <<c>> \o cs
AppendCompile(cs, c) == Append(cs, c)

\* durations[c.pkgname] = append(durations[c.pkgname], c.dur)
AppendDurationEntryOnly(ds, c) ==
    MapPut(ds, c.pkgname, MapGet(ds, c.pkgname, << >>))
AppendDurationByKey(ds, c) ==
    MapPut(ds, PkgVer(c.pkgname, c.pkgversion),
           Append(MapGet(ds, PkgVer(c.pkgname, c.pkgversion), << >>), c.dur))
AppendDuration(ds, c) ==
    MapPut(ds, c.pkgname, Append(MapGet(ds, c.pkgname, << >>), c.dur))

\* nip: the sessions of inprogress whose key running marks true
FilterPresent(ip, r) == [k \in {x \in DOMAIN ip : x \in DOMAIN r} |-> ip[k]]
FilterRunning(ip, r) == [k \in {x \in DOMAIN ip : MapGet(r, x, FALSE)} |-> ip[k]]

\* the running arguments a caller passes
RunningMaps ==
    { EmptyMap,
      [k \in {PkgVer("a/x", "1.0")} |-> TRUE],
      [k \in {PkgVer("a/x", "1.0"), PkgVer("a/x", "2.0"), PkgVer("c/z", "9.0")} |->
            k # PkgVer("a/x", "2.0")],
      [k \in Keys |-> TRUE] }

\* ------------------------------------------------------------------ history
\* the timestamp a line carries: the numeral of its first token, 0 for a
\* token that is no numeral
LineTs(line) ==
    IF line.tok = GoodTok(1) THEN 1 ELSE IF line.tok = GoodTok(2) THEN 2 ELSE 0

LastTwo(s) == IF Len(s) > 2 THEN SubSeq(s, Len(s) - 1, Len(s)) ELSE s

\* the build-start timestamps still to be paired: a build-complete line
\* forgets those of its key, a discarding line of parselog forgets all
HistStarts(line) ==
    IF line.short THEN hStarts
    ELSE LET kept == IF fn = "parselog" /\ Discards(line)
                     THEN [k \in Keys |-> << >>] ELSE hStarts
         IN  IF line.cat = "start"
             THEN [kept EXCEPT ![LineKey(line)] = LastTwo(Append(@, LineTs(line)))]
             ELSE IF line.cat = "complete"
             THEN [kept EXCEPT ![LineKey(line)] = << >>]
             ELSE kept

Snapshot == [compiles |-> compiles, inprogress |-> inprogress, unmerges |-> unmerges,
             durations |-> durations, hStarts |-> hStarts, diag |-> diag,
             latestStart |-> latestStart]

\* what every consumed line does: lineno++, and the history
Consume(line) ==
    /\ pc = "scan"
    /\ lineno < MaxLines
    /\ line \in LinesOf(fn)
    /\ lineno' = lineno + 1
    /\ cur' = line
    /\ hPrev' = Snapshot
    /\ hStarts' = HistStarts(line)
    /\ hLog' = IF hLog.mode = "record"
               THEN [hLog EXCEPT !.lines = Append(@, line), !.durs = Append(@, durations)]
               ELSE hLog
    /\ UNCHANGED <<fn, pc, running, nip, medDurs, medOut, medPc, hMedIn>>
    /\ UNCHANGED toolVars

\* if err != nil { fmt.Fprintf(os.Stderr, ...) }   (no continue)
Diagnose(line) == diag' = IF Ts(line).err THEN diag + 1 ELSE diag

\* parselog: inprogress = make(map[string]compileHist) on a discarding line
OpenSessionsKeptOnRestart(line) ==
    IF fn = "parselog" /\ line.cat = "reset" THEN EmptyMap ELSE inprogress
OpenSessions(line) ==
    IF fn = "parselog" /\ Discards(line) THEN EmptyMap ELSE inprogress

\* ------------------------------------------------------------------ actions
Init ==
    /\ fn \in {"findCompileHist", "parselog"}
    /\ pc = "scan"
    /\ lineno = 0
    /\ compiles = << >>
    /\ inprogress = EmptyMap
    /\ unmerges = EmptyMap
    /\ durations = EmptyMap
    /\ running = EmptyMap
    /\ nip = EmptyMap
    /\ diag = 0
    /\ cur = NoLine
    /\ hStarts = [k \in Keys |-> << >>]
    /\ hPrev = [compiles |-> << >>, inprogress |-> EmptyMap, unmerges |-> EmptyMap,
                durations |-> EmptyMap, hStarts |-> [k \in Keys |-> << >>], diag |-> 0,
                latestStart |-> EmptyMap]
    /\ LogIdle
    /\ medDurs = << >>
    /\ medOut = 0
    /\ medPc = "idle"
    /\ hMedIn = << >>
    /\ ScanExtIdle
    /\ ToolsIdle

\* if len(fields) < 2 { continue }
SkipShortLine(line) ==
    /\ line.short
    /\ Consume(line)
    /\ UNCHANGED <<compiles, inprogress, unmerges, durations, diag, scanExt>>

\* if compileStartRegEx.MatchString(message) { ...; continue }
BuildStart(line) ==
    /\ ~line.short
    /\ line.cat = "start"
    /\ Consume(line)
    /\ Diagnose(line)
    /\ inprogress' = StoreSession(OpenSessions(line), line)
    /\ UNCHANGED <<compiles, unmerges, durations, scanExt>>

\* if unmergeStartRegEx.MatchString(message) { ...; continue }
UnmergeStartEndsSession(line) ==
    /\ ~line.short
    /\ line.cat = "unmerge"
    /\ Consume(line)
    /\ Diagnose(line)
    /\ inprogress' = MapDel(OpenSessions(line), LineKey(line))
    /\ unmerges' = StoreSession(unmerges, line)
    /\ UNCHANGED <<compiles, durations, scanExt>>
UnmergeStart(line) ==
    /\ ~line.short
    /\ line.cat = "unmerge"
    /\ Consume(line)
    /\ Diagnose(line)
    /\ inprogress' = OpenSessions(line)
    /\ unmerges' = StoreSession(unmerges, line)
    /\ UNCHANGED <<compiles, durations, scanExt>>

\* if compileCompleteRegEx.MatchString(message) { ...; continue }
BuildComplete(line) ==
    /\ ~line.short
    /\ line.cat = "complete"
    /\ Consume(line)
    /\ Diagnose(line)
    /\ UNCHANGED scanExt
    /\ LET ip == OpenSessions(line)
           pkgver == LineKey(line)
           found == Lookup(ip, pkgver)
           c == Complete(found.c, Dt(line))
       IN  IF ~found.ok
           THEN /\ unmerges' = ConsumeUnmerge(unmerges, pkgver)
                /\ inprogress' = ip
                /\ UNCHANGED <<compiles, durations>>
           ELSE /\ compiles' = AppendCompile(compiles, c)
                /\ durations' = AppendDuration(durations, c)
                /\ inprogress' = MapDel(ip, pkgver)
                /\ UNCHANGED unmerges

\* a message that matches none of the three patterns
Unrecognized(line) ==
    /\ ~line.short
    /\ line.cat \in {"reset", "other"}
    /\ Consume(line)
    /\ Diagnose(line)
    /\ inprogress' = OpenSessions(line)
    /\ UNCHANGED <<compiles, unmerges, durations, scanExt>>

\* findCompileHist after the loop: filter inprogress by running and return
ReturnFindCompileHist(r) ==
    /\ fn = "findCompileHist"
    /\ pc = "scan"
    /\ pc' = "done"
    /\ running' = r
    /\ nip' = FilterRunning(inprogress, r)
    /\ UNCHANGED <<fn, lineno, compiles, inprogress, unmerges, durations, diag,
                   cur, hStarts, hPrev, hLog, medDurs, medOut, medPc, hMedIn>>
    /\ UNCHANGED <<scanExt, toolVars>>

\* parselog after the loop: return compiles, inprogress, durations
ReturnParselog ==
    /\ fn = "parselog"
    /\ pc = "scan"
    /\ pc' = "done"
    /\ nip' = inprogress
    /\ UNCHANGED <<fn, lineno, compiles, inprogress, unmerges, durations, diag,
                   running, cur, hStarts, hPrev, hLog, medDurs, medOut, medPc, hMedIn>>
    /\ UNCHANGED <<scanExt, toolVars>>

\* ------------------------------------------------------------- medDuration
\* sort.Sort(durs) with Less(i, j) = durs[i] < durs[j]: ascending order
RECURSIVE InsertSorted(_, _)
InsertSorted(s, d) ==
    IF s = << >> THEN <<d>>
    ELSE IF d < s[1] THEN <<d>> \o s
    ELSE <<s[1]>> \o InsertSorted(Tail(s), d)

RECURSIVE SortDurs(_)
SortDurs(durs) ==
    IF durs = << >> THEN << >>
    ELSE InsertSorted(SortDurs(Tail(durs)), durs[1])

\* medDuration; s[i + 1] is durs[i] of the sorted slice
medDurationAveragingValues(durs) ==
    LET s == SortDurs(durs)
        n == Len(durs)
    IN  IF n % 2 # 0 THEN s[(n \div 2) + 1]
        ELSE (s[(n \div 2 - 1) + 1] + s[(n \div 2) + 1]) \div 2
medDuration(durs) ==
    LET s == SortDurs(durs)
        n == Len(durs)
        mph == n \div 2
        mpl == mph - 1
    IN  IF n % 2 # 0 THEN s[(n \div 2) + 1]
        ELSE s[((mpl + mph) \div 2) + 1]

RECURSIVE SeqsUpTo(_, _)
SeqsUpTo(S, n) ==
    IF n = 0 THEN {<< >>}
    ELSE LET shorter == SeqsUpTo(S, n - 1)
         IN  shorter \cup { Append(q, x) : q \in shorter, x \in S }

\* the non-empty duration lists handed to medDuration
DurLists == SeqsUpTo(0..MaxDurVal, MaxDurs) \ {<< >>}

InitMed ==
    /\ fn = "findCompileHist"
    /\ pc = "scan"
    /\ lineno = 0
    /\ compiles = << >>
    /\ inprogress = EmptyMap
    /\ unmerges = EmptyMap
    /\ durations = EmptyMap
    /\ running = EmptyMap
    /\ nip = EmptyMap
    /\ diag = 0
    /\ cur = NoLine
    /\ hStarts = [k \in Keys |-> << >>]
    /\ hPrev = [compiles |-> << >>, inprogress |-> EmptyMap, unmerges |-> EmptyMap,
                durations |-> EmptyMap, hStarts |-> [k \in Keys |-> << >>], diag |-> 0,
                latestStart |-> EmptyMap]
    /\ LogIdle
    /\ medDurs \in DurLists
    /\ hMedIn = medDurs
    /\ medOut = 0
    /\ medPc = "call"
    /\ ScanExtIdle
    /\ ToolsIdle

\* one call of medDuration: sorts the slice in place and returns the median
MedDurationCall ==
    /\ medPc = "call"
    /\ medPc' = "ret"
    /\ medOut' = medDuration(medDurs)
    /\ medDurs' = SortDurs(medDurs)
    /\ UNCHANGED <<hMedIn, fn, pc, lineno, compiles, inprogress, unmerges, durations,
                   running, nip, diag, cur, hStarts, hPrev, hLog>>
    /\ UNCHANGED <<scanExt, toolVars>>

NextMed == MedDurationCall

SpecMed == InitMed /\ [][NextMed]_vars

\* -------------------------------------------------------------------- scan
Next ==
    \/ \E line \in Lines : SkipShortLine(line)
    \/ \E line \in Lines : BuildStart(line)
    \/ \E line \in Lines : UnmergeStart(line)
    \/ \E line \in Lines : BuildComplete(line)
    \/ \E line \in Lines : Unrecognized(line)
    \/ \E r \in RunningMaps : ReturnFindCompileHist(r)
    \/ ReturnParselog

Spec == Init /\ [][Next]_vars

\* ------------------------------------------------ characters and patterns
\* A text is a sequence of one-character strings.  The patterns are the
\* regular expressions that init compiles; regexp matches leftmost-first, so
\* a match begins at the leftmost position where one exists and every
\* quantifier (all are greedy) takes the longest repetition that lets the
\* rest of the pattern match.
Letters == {
      "a", "b", "c", "d", "e", "f", "g", "h", "i", "j", "k", "l", "m",
      "n", "o", "p", "q", "r", "s", "t", "u", "v", "w", "x", "y", "z",
      "A", "B", "C", "D", "E", "F", "G", "H", "I", "J", "K", "L", "M",
      "N", "O", "P", "Q", "R", "S", "T", "U", "V", "W", "X", "Y", "Z" }
Digits == { DigitChars[i] : i \in 1..Len(DigitChars) }
\* [A-Za-z0-9/_-]
PkgChars == Letters \cup Digits \cup {"/", "_", "-"}
\* [^ ] and . (any character but a line feed), over the characters of s
NotSpace(s) == { s[k] : k \in 1..Len(s) } \ {" "}
AnyChar(s) == { s[k] : k \in 1..Len(s) } \ {"\n"}

\* the literal texts of the patterns
LitEmerge ==
    <<">", ">", ">", " ", "e", "m", "e", "r", "g", "e", " ">>
LitCompleted ==
    <<":", ":", ":", " ", "c", "o", "m", "p", "l", "e", "t", "e", "d">> \o
    <<" ", "e", "m", "e", "r", "g", "e", " ">>
LitUnmerging ==
    <<"=", "=", "=", " ", "U", "n", "m", "e", "r", "g", "i", "n", "g">>
LitOf == <<" ", "o", "f", " ">>
LitTo == <<" ", "t", "o", " ", "/">>
LitFirstAnyCount ==
    <<">", ">", ">", " ", "e", "m", "e", "r", "g", "e", " ", "(">>
LitFirst ==
    <<">", ">", ">", " ", "e", "m", "e", "r", "g", "e", " ", "(", "1", " ", "o", "f">>

At(s, i) == IF i \in 1..Len(s) THEN s[i] ELSE ""
HasAt(s, i, lit) ==
    /\ i >= 1
    /\ i + Len(lit) - 1 <= Len(s)
    /\ SubSeq(s, i, i + Len(lit) - 1) = lit
\* the position after the longest run of characters of class that begins at i
RunEnd(s, i, class) ==
    IF i > Len(s) THEN i
    ELSE CHOOSE j \in i..(Len(s) + 1) :
        /\ \A k \in i..(j - 1) : s[k] \in class
        /\ (j = Len(s) + 1 \/ s[j] \notin class)
SetMax(S) == CHOOSE x \in S : \A y \in S : y <= x
SetMin(S) == CHOOSE x \in S : \A y \in S : x <= y

\* FindStringSubmatch returns nil when the pattern matches nowhere
NoMatch == [ok |-> FALSE]

\* The version of "(?P<package>[A-Za-z0-9/_-]+)-(?P<version>...)" whose "-"
\* stands at e: the position after it, 0 when no version matches there.
\*   tail "to":    \d[^ ]+ followed by " to /"   (commonRegEx)
\*   tail "":      \d[^ ]+                        (splitRegEx)
\*   tail "paren": \d.* followed by \)            (unmergeStartRegEx)
VerEnd(tail, s, e) ==
    IF ~(At(s, e) = "-" /\ IsDigit(At(s, e + 1))) THEN 0
    ELSE IF tail = "paren"
    THEN LET closes == { k \in (e + 2)..Len(s) :
                           /\ s[k] = ")"
                           /\ \A j \in (e + 2)..(k - 1) : s[j] \in AnyChar(s) }
         IN  IF closes = {} THEN 0 ELSE SetMax(closes)
    ELSE LET r == RunEnd(s, e + 2, NotSpace(s))
         IN  IF r > e + 2 /\ (tail = "to" => HasAt(s, r, LitTo)) THEN r ELSE 0

\* the positions of a "-" that can end a package beginning at q
Dashes(tail, s, q) ==
    { e \in (q + 1)..(RunEnd(s, q, PkgChars) - 1) : VerEnd(tail, s, e) # 0 }

\* the two groups when the package ends before the "-" at e
PkgVerGroups(tail, s, q, e) ==
    [ok |-> TRUE,
     package |-> SubSeq(s, q, e - 1),
     version |-> SubSeq(s, e + 1, VerEnd(tail, s, e) - 1)]

\* package and version of a match beginning at q: the package is greedy
PkgVerAt(tail, s, q) ==
    IF Dashes(tail, s, q) = {} THEN NoMatch
    ELSE PkgVerGroups(tail, s, q, SetMax(Dashes(tail, s, q)))

\* commonRegEx at i: \((?P<ith>\d+) of (?P<total>\d+)\) package-version to /
CommonAt(s, i) ==
    LET d1 == RunEnd(s, i + 1, Digits)
        t0 == d1 + Len(LitOf)
        d2 == RunEnd(s, t0, Digits)
        pv == PkgVerAt("to", s, d2 + 2)
    IN  IF /\ At(s, i) = "("
           /\ d1 > i + 1
           /\ HasAt(s, d1, LitOf)
           /\ d2 > t0
           /\ HasAt(s, d2, <<")", " ">>)
           /\ pv.ok
        THEN [ok |-> TRUE, ith |-> SubSeq(s, i + 1, d1 - 1),
              total |-> SubSeq(s, t0, d2 - 1),
              package |-> pv.package, version |-> pv.version]
        ELSE NoMatch

\* splitRegEx at i, with a package that takes the shortest repetition
SplitAtShortestPackage(s, i) ==
    IF Dashes("", s, i) = {} THEN NoMatch
    ELSE PkgVerGroups("", s, i, SetMin(Dashes("", s, i)))

\* splitRegEx at i
SplitAt(s, i) == PkgVerAt("", s, i)

\* unmergeStartRegEx at i: === Unmerging... \(package-version\)
UnmergeAt(s, i) ==
    LET q == i + Len(LitUnmerging) + 5
    IN  IF /\ HasAt(s, i, LitUnmerging)
           /\ \A k \in (q - 5)..(q - 3) : At(s, k) \in AnyChar(s)
           /\ HasAt(s, q - 2, <<" ", "(">>)
        THEN PkgVerAt("paren", s, q)
        ELSE NoMatch

\* the match of pattern re that begins at position i of s
MatchAt(re, s, i) ==
    CASE re = "start" ->
           IF HasAt(s, i, LitEmerge) THEN CommonAt(s, i + Len(LitEmerge))
           ELSE NoMatch
      [] re = "complete" ->
           IF HasAt(s, i, LitCompleted) THEN CommonAt(s, i + Len(LitCompleted))
           ELSE NoMatch
      [] re = "unmerge" -> UnmergeAt(s, i)
      [] re = "split" -> SplitAt(s, i)
      [] re = "first" -> [ok |-> HasAt(s, i, LitFirst)]

MatchPositions(re, s) == { i \in 1..Len(s) : MatchAt(re, s, i).ok }
FindStringSubmatch(re, s) ==
    IF MatchPositions(re, s) = {} THEN NoMatch
    ELSE MatchAt(re, s, SetMin(MatchPositions(re, s)))

\* fmt.Sprintf("%s-%s", package, version) on texts
Sprintf(p, v) == p \o <<"-">> \o v

\* ------------------------------------------------- the patterns on messages
\* texts of packages, versions and counters that the messages name: a package
\* that holds "-" and a digit, versions that hold "-", a version of one
\* character
PkgTexts == { <<"a", "/", "x">>, <<"b", "/", "y">>, <<"x", "-", "2">> }
VerTexts == { <<"1", ".", "0">>, <<"2", ".", "0">>, <<"3", "b">>, <<"2", "-", "r", "1">>, <<"1">> }
IthTexts == { <<"1">>, <<"2">>, <<"1", "2">> }

\* the messages portage writes
StartMsg(ith, p, v) ==
    LitEmerge \o <<"(">> \o ith \o LitOf \o <<"1", "2">> \o <<")", " ">>
        \o p \o <<"-">> \o v \o LitTo
CompleteMsg(ith, p, v) ==
    LitCompleted \o <<"(">> \o ith \o LitOf \o <<"1", "2">> \o <<")", " ">>
        \o p \o <<"-">> \o v \o LitTo
UnmergeMsg(p, v) ==
    LitUnmerging \o <<".", ".", ".", " ", "(">> \o p \o <<"-">> \o v \o <<")">>

\* messages of one shape, among them two that no pattern matches, and
\* messages that hold the texts of two shapes
Messages ==
    { StartMsg(i, p, v) : i \in IthTexts, p \in PkgTexts, v \in VerTexts }
    \cup { CompleteMsg(<<"2">>, p, v) : p \in PkgTexts, v \in VerTexts }
    \cup { UnmergeMsg(p, v) : p \in PkgTexts, v \in VerTexts }
    \cup { LitFirst,
           <<"*", "*", "*", " ", "t", "e", "r", "m", "i", "n", "a", "t", "i", "n", "g", ".">>,
           <<"=", "=", "=", " ", "S", "y", "n", "c", " ", "c", "o", "m", "p", "l", "e", "t", "e", "d">> }
    \cup
    { a \o <<" ">> \o b :
        a \in { StartMsg(<<"2">>, <<"a", "/", "x">>, <<"1", ".", "0">>), UnmergeMsg(<<"a", "/", "x">>, <<"1", ".", "0">>) },
        b \in { CompleteMsg(<<"2">>, <<"b", "/", "y">>, <<"1", ".", "0">>), UnmergeMsg(<<"b", "/", "y">>, <<"2", ".", "0">>) } }

Patterns == {"start", "complete", "unmerge", "first"}

\* what the patterns find in a message and, for a build-start message, the
\* key extractEmStart builds and what splitpkgver finds in that key
PatternResults(msg) ==
    LET m == FindStringSubmatch("start", msg)
        key == IF m.ok THEN Sprintf(m.package, m.version) ELSE << >>
    IN  [start |-> m,
         complete |-> FindStringSubmatch("complete", msg),
         unmerge |-> FindStringSubmatch("unmerge", msg),
         at |-> [re \in Patterns |-> MatchPositions(re, msg)],
         key |-> key,
         split |-> FindStringSubmatch("split", key)]

\* the local variables of scan f before its first line is read
ScanLocals(f) ==
    /\ fn = f
    /\ pc = "scan"
    /\ lineno = 0
    /\ compiles = << >>
    /\ inprogress = EmptyMap
    /\ unmerges = EmptyMap
    /\ durations = EmptyMap
    /\ running = EmptyMap
    /\ nip = EmptyMap
    /\ diag = 0
    /\ cur = NoLine
    /\ hStarts = [k \in Keys |-> << >>]
    /\ hPrev = [compiles |-> << >>, inprogress |-> EmptyMap, unmerges |-> EmptyMap,
                durations |-> EmptyMap, hStarts |-> [k \in Keys |-> << >>], diag |-> 0,
                latestStart |-> EmptyMap]
\* the scan variables before the first line of function f is read
ScanStart(f) == ScanLocals(f) /\ ScanExtIdle /\ LogIdle
MedIdle == medDurs = << >> /\ medOut = 0 /\ medPc = "idle" /\ hMedIn = << >>
scanVars == <<fn, pc, lineno, compiles, inprogress, unmerges, durations, running,
              nip, diag, cur, hStarts, hPrev, hLog, scanExt>>
medVars == <<medDurs, medOut, medPc, hMedIn>>

InitRe ==
    /\ ScanStart("findCompileHist")
    /\ MedIdle
    /\ RcIdle
    /\ ScIdle
    /\ MnIdle
    /\ IoIdle
    /\ reMsg \in Messages
    /\ reOut = EmptyMap
    /\ rePc = "call"

\* the patterns applied to one message
MatchMessage ==
    /\ rePc = "call"
    /\ rePc' = "ret"
    /\ reOut' = PatternResults(reMsg)
    /\ UNCHANGED <<reMsg, scanVars, medVars, rcVars, scVars, mnVars, ioVars>>

SpecRe == InitRe /\ [][MatchMessage]_vars

\* -------------------------------------------------------- findMedDurations
\* Go strings and texts: the string of a text, and the text of a string that
\* names a package, a version or a key of the model
RECURSIVE Str(_)
Str(t) == IF t = << >> THEN "" ELSE Head(t) \o Str(Tail(t))
KnownTexts ==
    PkgTexts \cup VerTexts \cup { Sprintf(p, v) : p \in PkgTexts, v \in VerTexts }
        \cup { <<"b", "/", "x">> }
Text(str) == CHOOSE t \in KnownTexts : Str(t) = str

\* getReMatches: the named groups of the leftmost match; on no match m is nil
\* and ret[name] = m[i] is an index out of range, a run-time panic (NoMatch)
getReMatches(re, t) == FindStringSubmatch(re, t)

\* splitpkgver on a Go string
splitpkgver(pv) ==
    LET m == getReMatches("split", Text(pv))
    IN  IF m.ok THEN [ok |-> TRUE, package |-> Str(m.package), version |-> Str(m.version)]
        ELSE NoMatch

\* splitpkgver on the keys that the lines of the model give
SplitOfKey == [k \in Keys |-> splitpkgver(k)]

\* latestStart[p] = ts
SetLatestStartOnce(m, p, ts) == IF p \in DOMAIN m THEN m ELSE MapPut(m, p, ts)
SetLatestStart(m, p, ts) == MapPut(m, p, ts)

\* if len(fields) < 2 { continue }
MedSkipShortLine(line) ==
    /\ fn = "findMedDurations"
    /\ line.short
    /\ Consume(line)
    /\ UNCHANGED <<compiles, inprogress, unmerges, durations, diag, scanExt>>

\* if err != nil { fmt.Fprintf(os.Stderr, ...); continue }
MedSkipUnparseable(line) ==
    /\ fn = "findMedDurations"
    /\ ~line.short
    /\ Ts(line).err
    /\ Consume(line)
    /\ diag' = diag + 1
    /\ UNCHANGED <<compiles, inprogress, unmerges, durations, scanExt>>

\* if compileStartRegEx.MatchString(message) { ...; continue }
MedBuildStart(line) ==
    /\ fn = "findMedDurations"
    /\ ~line.short
    /\ ~Ts(line).err
    /\ line.cat = "start"
    /\ Consume(line)
    /\ inprogress' = StoreSession(inprogress, line)
    /\ LET pv == SplitOfKey[LineKey(line)]
       IN  latestStart' = SetLatestStart(latestStart, pv.package, Ts(line).val)
    /\ UNCHANGED <<compiles, unmerges, durations, diag, pkg2md>>

\* if compileCompleteRegEx.MatchString(message) { ...; continue }
MedBuildComplete(line) ==
    /\ fn = "findMedDurations"
    /\ ~line.short
    /\ ~Ts(line).err
    /\ line.cat = "complete"
    /\ Consume(line)
    /\ LET pv == LineKey(line)
           found == Lookup(inprogress, pv)
           c == Complete(found.c, Dt(line))
       IN  IF ~found.ok
           THEN UNCHANGED <<inprogress, durations>>
           ELSE /\ durations' = AppendDuration(durations, c)
                /\ inprogress' = MapDel(inprogress, pv)
    /\ UNCHANGED <<compiles, unmerges, diag, scanExt>>

\* a message that matches neither of the two patterns
MedUnrecognized(line) ==
    /\ fn = "findMedDurations"
    /\ ~line.short
    /\ ~Ts(line).err
    /\ line.cat \notin {"start", "complete"}
    /\ Consume(line)
    /\ UNCHANGED <<compiles, inprogress, unmerges, durations, diag, scanExt>>

\* after the loop: pkg2md[pn] = medDuration(durs) for every package, which
\* sorts the slice that the map holds
ReturnFindMedDurations ==
    /\ fn = "findMedDurations"
    /\ pc = "scan"
    /\ pc' = "done"
    /\ pkg2md' = [pn \in DOMAIN durations |-> medDuration(durations[pn])]
    /\ durations' = [pn \in DOMAIN durations |-> SortDurs(durations[pn])]
    /\ UNCHANGED <<fn, lineno, compiles, inprogress, unmerges, diag, running, nip,
                   cur, hStarts, hPrev, hLog, latestStart, medVars, toolVars>>

InitLatest ==
    /\ \E f \in {"findCompileHist", "findMedDurations"} : ScanStart(f)
    /\ MedIdle
    /\ ToolsIdle

\* the steps of the scan that runs
NextLatest ==
    \/ fn = "findCompileHist" /\ \E line \in Lines : SkipShortLine(line)
    \/ fn = "findCompileHist" /\ \E line \in Lines : BuildStart(line)
    \/ fn = "findCompileHist" /\ \E line \in Lines : UnmergeStart(line)
    \/ fn = "findCompileHist" /\ \E line \in Lines : BuildComplete(line)
    \/ fn = "findCompileHist" /\ \E line \in Lines : Unrecognized(line)
    \/ ReturnFindCompileHist([k \in Keys |-> TRUE])
    \/ \E line \in Lines : MedSkipShortLine(line)
    \/ \E line \in Lines : MedSkipUnparseable(line)
    \/ \E line \in Lines : MedBuildStart(line)
    \/ \E line \in Lines : MedBuildComplete(line)
    \/ \E line \in Lines : MedUnrecognized(line)
    \/ ReturnFindMedDurations

SpecLatest == InitLatest /\ [][NextLatest]_vars

\* --------------------------------------------------------- runningCompiles
\* strings.HasPrefix, strings.HasSuffix on texts
HasPrefix(t, pre) == HasAt(t, 1, pre)
HasSuffix(t, suf) == HasAt(t, Len(t) - Len(suf) + 1, suf)
LitSandbox == <<"s", "a", "n", "d", "b", "o", "x">>

\* strings.Split(t, sep)[0] for a separator of one character
BeforeFirst(t, sep) ==
    IF \E k \in 1..Len(t) : t[k] = sep
    THEN SubSeq(t, 1, SetMin({ k \in 1..Len(t) : t[k] = sep }) - 1)
    ELSE t
\* the last element of strings.Split(t, sep)
AfterLast(t, sep) ==
    IF \E k \in 1..Len(t) : t[k] = sep
    THEN SubSeq(t, SetMax({ k \in 1..Len(t) : t[k] = sep }) + 1, Len(t))
    ELSE t

\* the command lines of the processes of a snapshot: workers of packages of
\* the log, a worker of a package the log does not name, a worker whose
\* version has one character, a worker with one argument, another process
Cmdlines ==
    { << <<"[", "a", "/", "x", "-", "1", ".", "0", "]", " ", "s", "a", "n", "d", "b", "o", "x">>, <<"s", "h", " ", "c", "o", "m", "p", "i", "l", "e">> >>,
      << <<"[", "b", "/", "y", "-", "2", ".", "0", "]", " ", "s", "a", "n", "d", "b", "o", "x">>, <<"s", "h", " ", "i", "n", "s", "t", "a", "l", "l">> >>,
      << <<"[", "c", "/", "z", "-", "9", ".", "0", "]", " ", "s", "a", "n", "d", "b", "o", "x">>, <<"s", "h", " ", "c", "o", "m", "p", "i", "l", "e">> >>,
      << <<"[", "a", "/", "x", "-", "1", "]", " ", "s", "a", "n", "d", "b", "o", "x">>, <<"s", "h", " ", "c", "o", "m", "p", "i", "l", "e">> >>,
      << <<"[", "a", "/", "x", "-", "1", ".", "0", "]", " ", "s", "a", "n", "d", "b", "o", "x">> >>,
      << <<"b", "a", "s", "h">>, <<"-", "c">> >> }

\* the test that selects the sandbox workers
IsSandboxWorker(args) ==
    /\ Len(args) > 1
    /\ HasPrefix(args[1], <<"[">>)
    /\ HasSuffix(args[1], LitSandbox)

\* pkg, phase and the result of getReMatches(splitpkgverRegEx, pkg) for a
\* command line
Worker(args) ==
    LET pkg == BeforeFirst(Tail(args[1]), "]")
    IN  [pkg |-> pkg,
         phase |-> AfterLast(args[Len(args)], " "),
         split |-> getReMatches("split", pkg)]
WorkerOf == [args \in Cmdlines |-> Worker(args)]

\* runningCompile{pkg: pkg, start: s, phase: phase}
NewRunningCompile(w, ct) == [pkg |-> Str(w.pkg), start |-> Unix(ct), phase |-> Str(w.phase)]

\* the snapshots and the values of latestStart that a scan leaves
RECURSIVE SeqsOfLen(_, _)
SeqsOfLen(S, n) ==
    IF n = 0 THEN { << >> }
    ELSE { Append(q, x) : q \in SeqsOfLen(S, n - 1), x \in S }
Snapshots == UNION { SeqsOfLen(Cmdlines, n) : n \in 0..MaxProcs }
LatestStarts ==
    { [p \in {"a/x"} |-> 2], [p \in {"a/x", "b/y"} |-> IF p = "a/x" THEN 1 ELSE 2] }

InitRc ==
    /\ ScanLocals("findMedDurations")
    /\ LogIdle
    /\ pkg2md = EmptyMap
    /\ latestStart \in LatestStarts
    /\ MedIdle
    /\ ReIdle
    /\ ScIdle
    /\ MnIdle
    /\ IoIdle
    /\ rcProcs \in Snapshots
    /\ rcI = 0
    /\ rcGone = {}
    /\ rcPkgs = << >>
    /\ rcPc = "loop"

rcFrame == UNCHANGED <<rcProcs, scanVars, medVars, reVars, scVars, mnVars, ioVars>>

\* pl, err := processes(*procDir); if err != nil { return nil, err }
ProcessesFails ==
    /\ rcPc = "loop"
    /\ rcI = 0
    /\ rcPc' = "error"
    /\ UNCHANGED <<rcI, rcGone, rcPkgs>>
    /\ rcFrame

\* the process exited after the snapshot was taken: its command line cannot
\* be read and the process is passed over
InspectGone ==
    /\ rcPc = "loop"
    /\ rcI < Len(rcProcs)
    /\ rcI' = rcI + 1
    /\ rcGone' = rcGone \cup {rcI + 1}
    /\ UNCHANGED <<rcPkgs, rcPc>>
    /\ rcFrame

\* one iteration of for _, p := range pl
Inspect ==
    /\ rcPc = "loop"
    /\ rcI < Len(rcProcs)
    /\ rcI' = rcI + 1
    /\ LET args == rcProcs[rcI + 1]
           w == WorkerOf[args]
           p == Str(w.split.package)
       IN  IF ~IsSandboxWorker(args)
           THEN UNCHANGED <<rcPkgs, rcPc>>
           ELSE IF ~w.split.ok
           THEN rcPc' = "panic" /\ UNCHANGED rcPkgs
           ELSE IF p \in DOMAIN latestStart
           THEN /\ rcPkgs' = Append(rcPkgs, NewRunningCompile(w, latestStart[p]))
                /\ UNCHANGED rcPc
           ELSE UNCHANGED <<rcPkgs, rcPc>>
    /\ UNCHANGED rcGone
    /\ rcFrame

\* return currpkgs, nil
ReturnRunningCompiles ==
    /\ rcPc = "loop"
    /\ rcI = Len(rcProcs)
    /\ rcPc' = "returned"
    /\ UNCHANGED <<rcI, rcGone, rcPkgs>>
    /\ rcFrame

NextRc ==
    \/ ProcessesFails
    \/ InspectGone
    \/ Inspect
    \/ ReturnRunningCompiles

SpecRc == InitRc /\ [][NextRc]_vars

\* ------------------------------------------------------------- showCurrent
\* A time.Duration counts nanoseconds.  showCurrent reads the clock between
\* the seconds of the log, so its times count ticks, TicksPerSec to a second;
\* with 6 ticks the average of up to three whole seconds is a whole number of
\* ticks, as it is a whole number of nanoseconds.
TicksPerSec == 6

\* Go's integer division truncates toward zero
GoDiv(a, b) == IF a >= 0 THEN a \div b ELSE 0 - ((0 - a) \div b)

RECURSIVE SumDurs(_)
SumDurs(durs) == IF durs = << >> THEN 0 ELSE Head(durs) + SumDurs(Tail(durs))

\* avgDuration of a list of durations in seconds, in ticks
avgDuration(durs) == GoDiv(SumDurs(durs) * TicksPerSec, Len(durs))

\* d.Round(NANOSPERSEC) in seconds: to the nearest second, halfway values
\* away from zero
RoundSec(d) ==
    IF d >= 0 THEN (d + TicksPerSec \div 2) \div TicksPerSec
    ELSE 0 - ((0 - d + TicksPerSec \div 2) \div TicksPerSec)

\* etas for a package with history: the sentinel or the rounded eta
EtaTextImminentAtZero(eta) ==
    IF eta <= 0 THEN [kind |-> "any time now", val |-> 0]
    ELSE [kind |-> "value", val |-> RoundSec(eta)]
EtaText(eta) ==
    IF eta < 0 THEN [kind |-> "any time now", val |-> 0]
    ELSE [kind |-> "value", val |-> RoundSec(eta)]

\* the order of the bytes of the characters of package identifiers
ByteOrder ==
    <<
       "-", ".", "/", "0", "1", "2", "3", "4", "5", "6", "7", "8", "9",
       "A", "B", "C", "D", "E", "F", "G", "H", "I", "J", "K", "L", "M",
       "N", "O", "P", "Q", "R", "S", "T", "U", "V", "W", "X", "Y", "Z",
       "_", "a", "b", "c", "d", "e", "f", "g", "h", "i", "j", "k", "l",
       "m", "n", "o", "p", "q", "r", "s", "t", "u", "v", "w", "x", "y",
       "z" >>
Byte(ch) == CHOOSE i \in 1..Len(ByteOrder) : ByteOrder[i] = ch

\* a < b on Go strings, by their texts
RECURSIVE TextLess(_, _)
TextLess(a, b) ==
    IF b = << >> THEN FALSE
    ELSE IF a = << >> THEN TRUE
    ELSE IF Head(a) # Head(b) THEN Byte(Head(a)) < Byte(Head(b))
    ELSE TextLess(Tail(a), Tail(b))
TextOfKey == [k \in Keys |-> Text(k)]

\* ByPkgname.Less
LessDescending(x, y) == TextLess(TextOfKey[y.pkgname], TextOfKey[x.pkgname])
Less(x, y) == TextLess(TextOfKey[x.pkgname], TextOfKey[y.pkgname])

\* sort.Sort(ByPkgname(ret))
RECURSIVE InsertByPkgname(_, _)
InsertByPkgname(sorted, x) ==
    IF sorted = << >> THEN <<x>>
    ELSE IF Less(x, Head(sorted)) THEN <<x>> \o sorted
    ELSE <<Head(sorted)>> \o InsertByPkgname(Tail(sorted), x)
RECURSIVE SortByPkgname(_)
SortByPkgname(ret) ==
    IF ret = << >> THEN << >>
    ELSE InsertByPkgname(SortByPkgname(Tail(ret)), Head(ret))

\* the arguments: every set of sessions of the log, each started at second
\* 1, and histories with no entry, one duration, an average between two
\* seconds, and a negative average
CurrMaps ==
    { [k \in { PkgVer(pv[1], pv[2]) : pv \in S } |->
          NewCompileHist(Unix(1), (CHOOSE pv \in S : PkgVer(pv[1], pv[2]) = k)[1],
                                  (CHOOSE pv \in S : PkgVer(pv[1], pv[2]) = k)[2])] :
      S \in SUBSET PkgVers }
HistOfAX == { <<1>>, <<1, 2>>, <<0 - 1, 0>> }
HistMaps ==
    { EmptyMap, [p \in {"b/y"} |-> <<2>>] }
    \cup { [p \in {"a/x"} |-> h] : h \in HistOfAX }
    \cup { [p \in {"a/x", "b/y"} |-> IF p = "a/x" THEN h ELSE <<2>>] : h \in HistOfAX }
\* the readings of the clock, in ticks
Clock == { TicksPerSec + k * (TicksPerSec \div 2) : k \in 0..MaxNow }

InitSc ==
    /\ ScanStart("parselog")
    /\ MedIdle
    /\ ReIdle
    /\ RcIdle
    /\ MnIdle
    /\ IoIdle
    /\ scCurr \in CurrMaps
    /\ scHist \in HistMaps
    /\ scNow = TicksPerSec
    /\ scRet = << >>
    /\ scLongest = 0
    /\ scPc = "loop"
    /\ hIter = << >>

Visited == { hIter[i].key : i \in 1..Len(hIter) }

\* one iteration of for pkgver, data := range curr; the map is walked in
\* any order and the clock does not go back
ShowCurrentEntry(pkgver, now) ==
    /\ scPc = "loop"
    /\ pkgver \in DOMAIN scCurr \ Visited
    /\ now >= scNow
    /\ scNow' = now
    /\ LET data == scCurr[pkgver]
           elapsed == Sub(now, Unix(data.start) * TicksPerSec)
           etas == IF data.pkgname \notin DOMAIN scHist
                   THEN [kind |-> "unknown", val |-> 0]
                   ELSE EtaText(avgDuration(scHist[data.pkgname]) - elapsed)
       IN  /\ scRet' = Append(scRet, [pkgname |-> pkgver,
                                      elapsed |-> RoundSec(elapsed),
                                      eta |-> etas])
           /\ hIter' = Append(hIter, [key |-> pkgver, elapsed |-> elapsed])
    /\ scLongest' = IF Len(TextOfKey[pkgver]) > scLongest
                    THEN Len(TextOfKey[pkgver]) ELSE scLongest
    /\ UNCHANGED <<scCurr, scHist, scPc, scanVars, medVars, reVars, rcVars, mnVars,
                   ioVars>>

\* if len(curr) == 0 { return nil, 0 }, and after the loop:
\* sort.Sort(ByPkgname(ret)); return ret, longest
ReturnShowCurrent ==
    /\ scPc = "loop"
    /\ Visited = DOMAIN scCurr
    /\ scPc' = "returned"
    /\ scRet' = SortByPkgname(scRet)
    /\ UNCHANGED <<scCurr, scHist, scNow, scLongest, hIter,
                   scanVars, medVars, reVars, rcVars, mnVars, ioVars>>

NextSc ==
    \/ \E pkgver \in Keys, now \in Clock : ShowCurrentEntry(pkgver, now)
    \/ ReturnShowCurrent

SpecSc == InitSc /\ [][NextSc]_vars

\* -------------------------------------------------------------------- main
\* strings.Split(t, sep) for a separator of one character
RECURSIVE SplitOn(_, _)
SplitOn(t, sep) ==
    IF \E k \in 1..Len(t) : t[k] = sep
    THEN <<BeforeFirst(t, sep)>>
             \o SplitOn(SubSeq(t, Len(BeforeFirst(t, sep)) + 2, Len(t)), sep)
    ELSE <<t>>

pkgnameMatch(pkgname, pattern) ==
    \/ pkgname = pattern
    \/ LET components == SplitOn(Text(pkgname), "/")
       IN  Len(components) = 2 /\ Str(components[2]) = pattern
\* the patterns a user asks for, and pkgnameMatch on them
PatternArgs == {"x", "a/x", "y", "zz"}
\* the packages of the logs main reads: two of them are named x
MainPkgVers == PkgVers \cup { <<"b/x", "1.0">> }
PkgnameMatches == [pn \in { pv[1] : pv \in MainPkgVers } |->
                      [pat \in PatternArgs |-> pkgnameMatch(pn, pat)]]

\* the loop over compiles of the -t mode: the first generous match sets the
\* pattern to the full package name, every later compile is compared literally
RECURSIVE FilterCompilesLiteralOnly(_, _, _, _)
FilterCompilesLiteralOnly(compiles_, pattern, firstmatched, filtered) ==
    IF compiles_ = << >> THEN [filtered |-> filtered, pattern |-> pattern]
    ELSE IF Head(compiles_).pkgname = pattern
    THEN FilterCompilesLiteralOnly(Tail(compiles_), pattern, TRUE,
                                   Append(filtered, Head(compiles_)))
    ELSE FilterCompilesLiteralOnly(Tail(compiles_), pattern, firstmatched, filtered)
RECURSIVE FilterCompilesAfterFirstMatch(_, _, _, _)
FilterCompilesAfterFirstMatch(compiles_, pattern, firstmatched, filtered) ==
    IF compiles_ = << >> THEN [filtered |-> filtered, pattern |-> pattern]
    ELSE IF firstmatched
    THEN FilterCompilesAfterFirstMatch(Tail(compiles_), pattern, firstmatched,
                                       Append(filtered, Head(compiles_)))
    ELSE IF PkgnameMatches[Head(compiles_).pkgname][pattern]
    THEN FilterCompilesAfterFirstMatch(Tail(compiles_), Head(compiles_).pkgname, TRUE,
                                       Append(filtered, Head(compiles_)))
    ELSE FilterCompilesAfterFirstMatch(Tail(compiles_), pattern, firstmatched, filtered)
RECURSIVE FilterCompiles(_, _, _, _)
FilterCompiles(compiles_, pattern, firstmatched, filtered) ==
    IF compiles_ = << >> THEN [filtered |-> filtered, pattern |-> pattern]
    ELSE IF firstmatched /\ Head(compiles_).pkgname = pattern
    THEN FilterCompiles(Tail(compiles_), pattern, firstmatched,
                        Append(filtered, Head(compiles_)))
    ELSE IF ~firstmatched /\ PkgnameMatches[Head(compiles_).pkgname][pattern]
    THEN FilterCompiles(Tail(compiles_), Head(compiles_).pkgname, TRUE,
                        Append(filtered, Head(compiles_)))
    ELSE FilterCompiles(Tail(compiles_), pattern, firstmatched, filtered)

\* the durations map that parselog returns with compiles
RECURSIVE DurationsOf(_)
DurationsOf(compiles_) ==
    IF compiles_ = << >> THEN EmptyMap
    ELSE LET c == compiles_[Len(compiles_)]
         IN  AppendDuration(DurationsOf(SubSeq(compiles_, 1, Len(compiles_) - 1)), c)

\* what parselog can return: completed compiles, their durations, and the
\* sessions in progress
CompileHists ==
    { Complete(NewCompileHist(Unix(1), pv[1], pv[2]), Unix(1 + d)) :
        pv \in MainPkgVers, d \in 1..2 }
CompileLists == UNION { SeqsOfLen(CompileHists, n) : n \in 0..MaxCompiles }
RunningSessions ==
    { EmptyMap,
      [k \in {PkgVer("a/x", "1.0")} |-> NewCompileHist(Unix(1), "a/x", "1.0")] }
Invocations ==
    { [openOk |-> f.openOk, modeCurrent |-> f.modeCurrent, modeHistory |-> f.modeHistory,
       modeEstimate |-> f.modeEstimate, compiles |-> f.compiles, running |-> f.running,
       durations |-> DurationsOf(f.compiles)] :
      f \in [openOk : BOOLEAN, modeCurrent : BOOLEAN, modeHistory : BOOLEAN,
             modeEstimate : {""} \cup PatternArgs,
             compiles : CompileLists, running : RunningSessions] }

InitMain ==
    /\ ScanStart("parselog")
    /\ MedIdle
    /\ ReIdle
    /\ RcIdle
    /\ ScIdle
    /\ IoIdle
    /\ mnArgs \in Invocations
    /\ mnOut = << >>
    /\ mnExit = 0 - 1
    /\ mnPc = "main"

\* os.Exit(status) after printing out
Exit(status, out) ==
    /\ mnPc = "main"
    /\ mnPc' = "exited"
    /\ mnExit' = status
    /\ mnOut' = out
    /\ UNCHANGED <<mnArgs, scanVars, medVars, reVars, rcVars, scVars, ioVars>>

\* the log file does not open
OpenFails ==
    /\ ~mnArgs.openOk
    /\ Exit(1, <<[kind |-> "could not open"]>>)

\* -c: the running compiles, as many rows as sessions in progress
ModeCurrent ==
    /\ mnArgs.openOk
    /\ mnArgs.modeCurrent
    /\ IF mnArgs.running = EmptyMap
       THEN Exit(0, <<[kind |-> "none running"]>>)
       ELSE Exit(0, <<[kind |-> "table", rows |-> Cardinality(DOMAIN mnArgs.running)]>>)

\* -t PATTERN: history and average duration of the first package that matches
ModeEstimate ==
    /\ mnArgs.openOk
    /\ ~mnArgs.modeCurrent
    /\ mnArgs.modeEstimate # ""
    /\ LET f == FilterCompiles(mnArgs.compiles, mnArgs.modeEstimate, FALSE, << >>)
           durs == mnArgs.durations[f.pattern]
       IN  IF Len(f.filtered) = 0
           THEN Exit(2, <<[kind |-> "not found", pattern |-> mnArgs.modeEstimate]>>)
           ELSE Exit(0, <<[kind |-> "history", compiles |-> f.filtered],
                          [kind |-> "average", dur |-> RoundSec(avgDuration(durs))]>>)

\* the default mode: the whole history
ModeHistory ==
    /\ mnArgs.openOk
    /\ ~mnArgs.modeCurrent
    /\ mnArgs.modeEstimate = ""
    /\ mnArgs.modeHistory
    /\ Exit(0, <<[kind |-> "history", compiles |-> mnArgs.compiles]>>)

\* no mode is active
Usage ==
    /\ mnArgs.openOk
    /\ ~mnArgs.modeCurrent
    /\ mnArgs.modeEstimate = ""
    /\ ~mnArgs.modeHistory
    /\ Exit(1, <<[kind |-> "usage"]>>)

NextMain ==
    \/ OpenFails
    \/ ModeCurrent
    \/ ModeEstimate
    \/ ModeHistory
    \/ Usage

SpecMain == InitMain /\ [][NextMain]_vars

\* ------------------------------------------------ scans of a failing stream
\* for scanner.Scan() { ... } ends when Scan returns false, at the end of the
\* log or on a read error (also a line too long for the scanner's buffer);
\* neither scan reads scanner.Err() after its loop.
\* The lines of a log that is read until it fails.
IoLines == { l \in Lines : l.short \/ l.tok = GoodTok(1) }

\* the stream fails: the next Scan returns false
ReadError ==
    /\ pc = "scan"
    /\ ~readErr
    /\ readErr' = TRUE
    /\ UNCHANGED fmVars
    /\ UNCHANGED <<scanVars, medVars, reVars, rcVars, scVars, mnVars>>

\* Scan delivers a line while the stream is readable; it returns false at the
\* end of the log and after a read error, and the scan returns its result
NextIo ==
    \/ ~readErr /\ \E line \in IoLines : SkipShortLine(line)
    \/ ~readErr /\ \E line \in IoLines : BuildStart(line)
    \/ ~readErr /\ \E line \in IoLines : UnmergeStart(line)
    \/ ~readErr /\ \E line \in IoLines : BuildComplete(line)
    \/ ~readErr /\ \E line \in IoLines : Unrecognized(line)
    \/ ReadError
    \/ ReturnFindCompileHist([k \in Keys |-> TRUE])
    \/ ReturnParselog

SpecIo == Init /\ [][NextIo]_vars

\* ------------------------------------------------- a run of the program
\* main reads the log with parselog and hands what parselog returns to the
\* mode the flags select; findMedDurations is the scan of the other variant.
\* compiles, running, durations := parselog(logfile)
ParselogReturnsToMain(current, pattern) ==
    /\ fn = "parselog"
    /\ pc = "done"
    /\ mnPc = "idle"
    /\ mnPc' = "main"
    /\ mnArgs' = [openOk |-> TRUE, modeCurrent |-> current, modeHistory |-> TRUE,
                  modeEstimate |-> IF current THEN "" ELSE pattern,
                  compiles |-> compiles, running |-> nip, durations |-> durations]
    /\ UNCHANGED <<mnOut, mnExit, scanVars, medVars, reVars, rcVars, scVars, ioVars>>

\* curr, longest := showCurrent(running, durations)
CallShowCurrent ==
    /\ mnPc = "main"
    /\ mnArgs.modeCurrent
    /\ scPc = "idle"
    /\ scPc' = "loop"
    /\ scCurr' = mnArgs.running
    /\ scHist' = mnArgs.durations
    /\ scNow' = 2 * TicksPerSec
    /\ UNCHANGED <<scRet, scLongest, hIter, scanVars, medVars, reVars, rcVars, mnVars,
                   ioVars>>

InitRun ==
    /\ \E f \in {"parselog", "findMedDurations"} : ScanStart(f)
    /\ MedIdle
    /\ ToolsIdle

\* the log of a run has at most MaxRunLines lines, and the clock does not
\* advance while showCurrent loops
NextRun ==
    \/ fn = "parselog" /\ lineno < MaxRunLines /\ \E line \in Lines : SkipShortLine(line)
    \/ fn = "parselog" /\ lineno < MaxRunLines /\ \E line \in Lines : BuildStart(line)
    \/ fn = "parselog" /\ lineno < MaxRunLines /\ \E line \in Lines : UnmergeStart(line)
    \/ fn = "parselog" /\ lineno < MaxRunLines /\ \E line \in Lines : BuildComplete(line)
    \/ fn = "parselog" /\ lineno < MaxRunLines /\ \E line \in Lines : Unrecognized(line)
    \/ ReturnParselog
    \/ lineno < MaxRunLines /\ \E line \in Lines : MedSkipShortLine(line)
    \/ lineno < MaxRunLines /\ \E line \in Lines : MedSkipUnparseable(line)
    \/ lineno < MaxRunLines /\ \E line \in Lines : MedBuildStart(line)
    \/ lineno < MaxRunLines /\ \E line \in Lines : MedBuildComplete(line)
    \/ lineno < MaxRunLines /\ \E line \in Lines : MedUnrecognized(line)
    \/ ReturnFindMedDurations
    \/ \E current \in BOOLEAN, pattern \in PatternArgs :
           ParselogReturnsToMain(current, pattern)
    \/ CallShowCurrent
    \/ \E pkgver \in Keys : ShowCurrentEntry(pkgver, scNow)
    \/ ReturnShowCurrent
    \/ scPc = "returned" /\ ModeCurrent
    \/ mnPc = "main" /\ ModeEstimate

SpecRun == InitRun /\ [][NextRun]_vars

\* ------------------------------------- one log read by both scans of util.go
\* the lines whose timestamp parses, and the line too short to have one read
ParseableLines == { l \in LinesOf("findCompileHist") : l.short \/ ~Ts(l).err }

\* findMedDurations opens the log that findCompileHist has read: its maps
\* are made empty and its scanner starts at the first line
ReadAgain ==
    /\ fn = "findCompileHist"
    /\ pc = "done"
    /\ hLog.mode = "record"
    /\ hLog' = [hLog EXCEPT !.mode = "replay", !.durs = Append(@, durations)]
    /\ fn' = "findMedDurations"
    /\ pc' = "scan"
    /\ lineno' = 0
    /\ compiles' = << >>
    /\ inprogress' = EmptyMap
    /\ unmerges' = EmptyMap
    /\ durations' = EmptyMap
    /\ running' = EmptyMap
    /\ nip' = EmptyMap
    /\ diag' = 0
    /\ cur' = NoLine
    /\ hStarts' = [k \in Keys |-> << >>]
    /\ hPrev' = [compiles |-> << >>, inprogress |-> EmptyMap, unmerges |-> EmptyMap,
                 durations |-> EmptyMap, hStarts |-> [k \in Keys |-> << >>], diag |-> 0,
                 latestStart |-> EmptyMap]
    /\ UNCHANGED <<medVars, scanExt, toolVars>>

InitBoth ==
    /\ ScanLocals("findCompileHist")
    /\ ScanExtIdle
    /\ hLog = [NoLog EXCEPT !.mode = "record"]
    /\ MedIdle
    /\ ToolsIdle

NextBoth ==
    \/ hLog.mode = "record" /\ lineno < MaxRunLines
           /\ \E line \in ParseableLines : SkipShortLine(line)
    \/ hLog.mode = "record" /\ lineno < MaxRunLines
           /\ \E line \in ParseableLines : BuildStart(line)
    \/ hLog.mode = "record" /\ lineno < MaxRunLines
           /\ \E line \in ParseableLines : UnmergeStart(line)
    \/ hLog.mode = "record" /\ lineno < MaxRunLines
           /\ \E line \in ParseableLines : BuildComplete(line)
    \/ hLog.mode = "record" /\ lineno < MaxRunLines
           /\ \E line \in ParseableLines : Unrecognized(line)
    \/ hLog.mode = "record" /\ ReturnFindCompileHist([k \in Keys |-> TRUE])
    \/ ReadAgain
    \/ hLog.mode = "replay" /\ lineno < Len(hLog.lines)
           /\ MedSkipShortLine(hLog.lines[lineno + 1])
    \/ hLog.mode = "replay" /\ lineno < Len(hLog.lines)
           /\ MedBuildStart(hLog.lines[lineno + 1])
    \/ hLog.mode = "replay" /\ lineno < Len(hLog.lines)
           /\ MedBuildComplete(hLog.lines[lineno + 1])
    \/ hLog.mode = "replay" /\ lineno < Len(hLog.lines)
           /\ MedUnrecognized(hLog.lines[lineno + 1])
    \/ hLog.mode = "replay" /\ lineno = Len(hLog.lines) /\ ReturnFindMedDurations

SpecBoth == InitBoth /\ [][NextBoth]_vars

\* ------------------------------------------------------------ findMainProc
LitEmergeWord == <<"e", "m", "e", "r", "g", "e">>
\* strings.Index(t, sub) != -1
Contains(t, sub) == \E i \in 1..Len(t) : HasAt(t, i, sub)

\* the ancestors: one that has exited, one with fewer than three arguments,
\* the emerge process (python -b /emerge), and one with three arguments that
\* is not emerge (su -c sh)
AncestorProcs ==
    { [gone |-> TRUE, args |-> << >>],
      [gone |-> FALSE, args |-> << <<"s", "h">> >>],
      [gone |-> FALSE, args |-> << <<"p", "y">>, <<"-", "b">>, <<"/">> \o LitEmergeWord >>],
      [gone |-> FALSE, args |-> << <<"s", "u">>, <<"-", "c">>, <<"s", "h">> >>] }
AncestorChains == UNION { SeqsOfLen(AncestorProcs, n) : n \in 0..MaxChain }

\* Parent() of the ancestor numbered i (0 is p itself): the next one up, an
\* error when there is none or it has exited
Parent(i) ==
    IF i + 1 > Len(fmProcs) \/ fmProcs[i + 1].gone
    THEN [proc |-> 0, err |-> TRUE]
    ELSE [proc |-> i + 1, err |-> FALSE]

InitFm ==
    /\ ScanStart("findMedDurations")
    /\ MedIdle
    /\ ReIdle
    /\ RcIdle
    /\ ScIdle
    /\ MnIdle
    /\ readErr = FALSE
    /\ fmProcs \in AncestorChains
    /\ fmPp = 0
    /\ fmSeen = << >>
    /\ fmRet = NoReturn
    /\ fmPc = "entry"

fmFrame == UNCHANGED <<fmProcs, readErr, scanVars, medVars, reVars, rcVars, scVars, mnVars>>

\* pp, err := p.Parent(); if err != nil { return nil, err }
FindParent ==
    /\ fmPc = "entry"
    /\ IF Parent(0).err
       THEN fmPc' = "returned" /\ fmRet' = [proc |-> 0, err |-> TRUE] /\ UNCHANGED fmPp
       ELSE fmPc' = "loop" /\ fmPp' = Parent(0).proc /\ UNCHANGED fmRet
    /\ UNCHANGED fmSeen
    /\ fmFrame

\* one iteration of for { pp, err := pp.Parent(); ... }: the pp and err of
\* the body are new variables, the pp to the right of := is the outer one,
\* which no iteration assigns
Iterate ==
    /\ fmPc = "loop"
    /\ Len(fmSeen) < MaxIter
    /\ LET pp == Parent(fmPp)
       IN  IF pp.err
           THEN /\ fmPc' = "returned"
                /\ fmRet' = [proc |-> 0, err |-> TRUE]
                /\ UNCHANGED fmSeen
           ELSE LET t == fmProcs[pp.proc].args
                IN  /\ fmSeen' = Append(fmSeen, pp.proc)
                    /\ IF Len(t) < 3
                       THEN fmPc' = "returned" /\ fmRet' = [proc |-> 0, err |-> FALSE]
                       ELSE IF Contains(t[3], LitEmergeWord)
                       THEN fmPc' = "returned" /\ fmRet' = [proc |-> pp.proc, err |-> FALSE]
                       ELSE UNCHANGED <<fmPc, fmRet>>
    /\ UNCHANGED fmPp
    /\ fmFrame

NextFm ==
    \/ FindParent
    \/ Iterate

SpecFm == InitFm /\ [][NextFm]_vars

\* ================================================================== claims
IsUnmerge(line) == ~line.short /\ line.cat = "unmerge"
IsComplete(line) == ~line.short /\ line.cat = "complete"

Last(s) == s[Len(s)]
IsPrefix(s, t) == Len(s) <= Len(t) /\ SubSeq(t, 1, Len(s)) = s

\* the last step consumed a build-complete line whose key was in flight
CompletedInFlight ==
    /\ lineno > 0
    /\ IsComplete(cur)
    /\ LineKey(cur) \in DOMAIN hPrev.inprogress

\* the CompletedCompile that pairs the line cur with a start at time t
Paired(t) ==
    [start |-> t, end |-> LineTs(cur), dur |-> LineTs(cur) - t,
     pkgname |-> cur.pkg, pkgversion |-> cur.ver]

\* C1: a build-complete line whose key is in flight yields exactly one
\* CompletedCompile: its start is the timestamp of the most recent preceding
\* build-start line for the key, its end the timestamp of the completion
\* line, its duration end - start; exactly that duration is appended to
\* DurationHistory[package], no other package's history changes, and the
\* in-flight entry of the key is removed.  (Both scans; the timestamp of a
\* line is what its first token reads as, 0 for a token that is no numeral.)
C1_CompletionPairsWithLatestStart ==
    CompletedInFlight =>
        LET k == LineKey(cur)
            starts == hPrev.hStarts[k]
        IN  /\ starts # << >>
            /\ compiles = Append(hPrev.compiles, Paired(Last(starts)))
            /\ DOMAIN durations = (DOMAIN hPrev.durations) \cup {cur.pkg}
            /\ durations[cur.pkg] =
                   Append(MapGet(hPrev.durations, cur.pkg, << >>), LineTs(cur) - Last(starts))
            /\ \A p \in (DOMAIN durations) \ {cur.pkg} : durations[p] = hPrev.durations[p]
            /\ inprogress = MapDel(hPrev.inprogress, k)
            /\ unmerges = hPrev.unmerges

\* C1 witness: start at 1, completion at 2 of a/x-1.0 gives one entry of 1s
C1_Witness ==
    /\ lineno = 2
    /\ CompletedInFlight
    /\ compiles = <<[start |-> 1, end |-> 2, dur |-> 1, pkgname |-> "a/x", pkgversion |-> "1.0"]>>
    /\ durations = [p \in {"a/x"} |-> <<1>>]
    /\ inprogress = EmptyMap

\* C2: in findCompileHist a key is in flight exactly when a build-start line
\* for it was read since its last build-complete line, the in-flight session
\* carries the timestamp of the latest such line (last-start-wins), and a
\* build-complete line that follows two build-start lines t1, t2 of its key
\* yields exactly one CompletedCompile, with start t2 and duration t3 - t2.
C2_LastStartWins ==
    fn = "findCompileHist" =>
        /\ \A k \in Keys : (k \in DOMAIN inprogress) <=> (hStarts[k] # << >>)
        /\ DOMAIN inprogress \subseteq Keys
        /\ \A k \in DOMAIN inprogress : inprogress[k].start = Last(hStarts[k])
        /\ (lineno > 0 /\ IsComplete(cur) /\ Len(hPrev.hStarts[LineKey(cur)]) = 2) =>
               /\ Len(compiles) = Len(hPrev.compiles) + 1
               /\ Last(compiles) = Paired(hPrev.hStarts[LineKey(cur)][2])
               /\ SubSeq(compiles, 1, Len(hPrev.compiles)) = hPrev.compiles

\* C2 witness: starts at 1 and at 2, completion at 2: one entry, duration 0
C2_Witness ==
    /\ fn = "findCompileHist"
    /\ lineno = 3
    /\ IsComplete(cur)
    /\ hPrev.hStarts[LineKey(cur)] = <<1, 2>>
    /\ LineTs(cur) = 2
    /\ Len(compiles) = 1
    /\ compiles[1].dur = 0

\* the last step of findCompileHist consumed an orphaned completion
OrphanedCompletion ==
    /\ fn = "findCompileHist"
    /\ lineno > 0
    /\ IsComplete(cur)
    /\ LineKey(cur) \notin DOMAIN hPrev.inprogress
    /\ LineKey(cur) \notin DOMAIN hPrev.unmerges

\* C3: an orphaned completion (key in neither the in-flight map nor the
\* removal map) produces no CompletedCompile and leaves the completed list,
\* the in-flight map, the removal map and DurationHistory unchanged.
C3_OrphanedCompletionIsNoOp ==
    OrphanedCompletion =>
        /\ compiles = hPrev.compiles
        /\ inprogress = hPrev.inprogress
        /\ unmerges = hPrev.unmerges
        /\ durations = hPrev.durations

\* C3 witness: an orphaned completion read while other state exists
C3_Witness ==
    /\ OrphanedCompletion
    /\ hPrev.inprogress # EmptyMap
    /\ hPrev.unmerges # EmptyMap

\* C4 (as claimed): in findCompileHist a line whose first token does not
\* parse emits a diagnostic and changes none of the completed list, the
\* in-flight map, the removal map and DurationHistory.
C4_UnparseableLineIsSkipped ==
    (fn = "findCompileHist" /\ lineno > 0 /\ ~cur.short /\ cur.tok = BadTok) =>
        /\ diag = hPrev.diag + 1
        /\ compiles = hPrev.compiles
        /\ inprogress = hPrev.inprogress
        /\ unmerges = hPrev.unmerges
        /\ durations = hPrev.durations

\* the restriction of a map to the keys running marks true
MarkedRunning(k) == k \in DOMAIN running /\ running[k] = TRUE

\* C5: the in-progress map findCompileHist returns is the restriction of
\* the end-of-scan in-flight map to the keys running marks true: sessions of
\* other keys are excluded, sessions of marked keys are returned unchanged,
\* and a marked key without a session is not added.
C5_ReturnedInProgressIsRestriction ==
    (fn = "findCompileHist" /\ pc = "done") =>
        /\ DOMAIN nip = { k \in DOMAIN inprogress : MarkedRunning(k) }
        /\ \A k \in DOMAIN nip : nip[k] = inprogress[k]

\* C5 witness: a returned session, an in-flight session running marks false,
\* an in-flight session running does not hold, a marked key without session
C5_Witness ==
    /\ fn = "findCompileHist"
    /\ pc = "done"
    /\ \E k \in DOMAIN inprogress : MarkedRunning(k) /\ k \in DOMAIN nip
    /\ \E k \in DOMAIN inprogress : k \in DOMAIN running /\ ~running[k] /\ k \notin DOMAIN nip
    /\ \E k \in DOMAIN inprogress : k \notin DOMAIN running /\ k \notin DOMAIN nip
    /\ \E k \in DOMAIN running : running[k] /\ k \notin DOMAIN inprogress

\* the last step of findCompileHist consumed a build-complete line whose key
\* was in the removal map and not in flight
CompletedRemoval ==
    /\ fn = "findCompileHist"
    /\ lineno > 0
    /\ IsComplete(cur)
    /\ LineKey(cur) \in DOMAIN hPrev.unmerges
    /\ LineKey(cur) \notin DOMAIN hPrev.inprogress

\* C6: in findCompileHist a removal-start line only adds its entry to the
\* removal map (no in-flight session is created or changed, no
\* CompletedCompile, no duration sample); a later build-complete line whose
\* key is in the removal map but not in flight removes that entry and
\* changes nothing else.
C6_RemovalOnlyTouchesRemovalMap ==
    /\ (fn = "findCompileHist" /\ lineno > 0 /\ IsUnmerge(cur)) =>
           /\ unmerges = MapPut(hPrev.unmerges, LineKey(cur),
                                 [start |-> LineTs(cur), end |-> ZeroTime, dur |-> 0,
                                  pkgname |-> cur.pkg, pkgversion |-> cur.ver])
           /\ inprogress = hPrev.inprogress
           /\ compiles = hPrev.compiles
           /\ durations = hPrev.durations
    /\ CompletedRemoval =>
           /\ unmerges = MapDel(hPrev.unmerges, LineKey(cur))
           /\ inprogress = hPrev.inprogress
           /\ compiles = hPrev.compiles
           /\ durations = hPrev.durations

\* C6 witness: a removal entry consumed by a build-complete line while a
\* build of another key is in flight
C6_Witness ==
    /\ CompletedRemoval
    /\ LineKey(cur) \notin DOMAIN unmerges
    /\ inprogress # EmptyMap

\* the durations of the entries of cs with package name p, in order
RECURSIVE DursOfPackage(_, _)
DursOfPackage(cs, p) ==
    IF cs = << >> THEN << >>
    ELSE IF cs[1].pkgname = p
         THEN <<cs[1].dur>> \o DursOfPackage(Tail(cs), p)
         ELSE DursOfPackage(Tail(cs), p)

\* C7: after every line of findCompileHist and of parselog, DurationHistory
\* has a key exactly for the package names of the CompletedCompile entries,
\* and DurationHistory[p] is the sequence of the durations of the entries
\* with package name p, in log order.
C7_DurationHistoryMirrorsCompiles ==
    /\ DOMAIN durations = { compiles[i].pkgname : i \in 1..Len(compiles) }
    /\ \A p \in DOMAIN durations : durations[p] = DursOfPackage(compiles, p)

\* C7 witness: two completed compiles of one package, of different versions
\* and durations
C7_Witness ==
    /\ Len(compiles) = 2
    /\ compiles[1].pkgname = compiles[2].pkgname
    /\ compiles[1].pkgversion # compiles[2].pkgversion
    /\ compiles[1].dur # compiles[2].dur
    /\ Len(durations[compiles[1].pkgname]) = 2

\* C8: during a findCompileHist scan the CompletedCompile sequence and every
\* DurationHistory sequence only grow at the end: the value before a line is
\* a prefix of the value after it (hence of the value after any later line),
\* and an entry is added only by a build-complete line, as the last entry.
C8_AppendOnly ==
    (fn = "findCompileHist" /\ lineno > 0) =>
        /\ IsPrefix(hPrev.compiles, compiles)
        /\ Len(compiles) <= Len(hPrev.compiles) + 1
        /\ Len(compiles) > Len(hPrev.compiles) =>
               /\ IsComplete(cur)
               /\ Last(compiles).end = LineTs(cur)
               /\ Last(compiles).pkgname = cur.pkg
               /\ Last(compiles).pkgversion = cur.ver
        /\ \A p \in DOMAIN hPrev.durations :
               p \in DOMAIN durations /\ IsPrefix(hPrev.durations[p], durations[p])

\* C8 witness: a second, different entry appended behind the first
C8_Witness ==
    /\ fn = "findCompileHist"
    /\ Len(hPrev.compiles) = 1
    /\ Len(compiles) = 2
    /\ compiles[1] # compiles[2]
    /\ \E p \in DOMAIN hPrev.durations : Len(durations[p]) = 2

\* C9 (as claimed, for lines whose timestamps parse): a CompletedCompile
\* whose build-start line precedes its build-complete line in the log has a
\* non-negative duration.
C9_NonNegativeInLogOrder ==
    (/\ fn = "findCompileHist"
     /\ CompletedInFlight
     /\ cur.tok # BadTok
     /\ Last(hPrev.hStarts[LineKey(cur)]) # 0) =>
        Last(compiles).dur >= 0

\* C9 (amended): the duration of a CompletedCompile is non-negative exactly
\* when the timestamp of its build-start line is not greater than the
\* timestamp of its build-complete line (an unparseable token counting as
\* 0); the order of the two lines in the log does not decide it.
C9_NonNegativeIffTimestampsOrdered ==
    (fn = "findCompileHist" /\ CompletedInFlight) =>
        (Last(compiles).dur >= 0 <=> Last(hPrev.hStarts[LineKey(cur)]) <= LineTs(cur))

\* C9 witness: start at 1 before completion at 2, duration 1
C9_Witness ==
    /\ fn = "findCompileHist"
    /\ CompletedInFlight
    /\ Last(hPrev.hStarts[LineKey(cur)]) = 1
    /\ LineTs(cur) = 2
    /\ Last(compiles).dur = 1

\* the k-th smallest element of a list (k from 1): an element with fewer
\* than k elements below it and at least k elements not above it
IsKthSmallest(x, k, durs) ==
    /\ \E i \in 1..Len(durs) : durs[i] = x
    /\ Cardinality({ i \in 1..Len(durs) : durs[i] < x }) < k
    /\ Cardinality({ i \in 1..Len(durs) : durs[i] <= x }) >= k

C19_NoMessageMatchesTwoPatterns ==
    rePc = "ret" =>
        Cardinality({ re \in Patterns : reOut.at[re] # {} }) <= 1

\* C19 (amended): no position of a message begins a match of two of the
\* patterns build-start, build-complete and removal-start, and the
\* restart-heuristic begins no match where build-complete or removal-start
\* does; where build-start begins a match, the restart-heuristic begins one
\* too exactly when the captured counter I is 1.
C19_PatternsExclusiveAtEachPosition ==
    rePc = "ret" =>
        /\ \A a, b \in Patterns \ {"start"} :
               a # b => reOut.at[a] \cap reOut.at[b] = {}
        /\ reOut.at["start"] \cap (reOut.at["complete"] \cup reOut.at["unmerge"]) = {}
        /\ \A i \in reOut.at["start"] :
               i \in reOut.at["first"] <=> MatchAt("start", reMsg, i).ith = <<"1">>

\* C19 witness: a first build-start message, which the build-start pattern
\* and the restart-heuristic match at the same position.
C19_Witness ==
    /\ rePc = "ret"
    /\ reOut.at["start"] \cap reOut.at["first"] # {}

\* C20: splitpkgver applied to the key that extractEmStart builds from a
\* matched build-start message returns the captured package and version.
C20_SplitRecoversCapturedPair ==
    (rePc = "ret" /\ reOut.start.ok) =>
        /\ reOut.split.ok
        /\ reOut.split.package = reOut.start.package
        /\ reOut.split.version = reOut.start.version

\* C20 witness: a matched build-start message whose captured package holds
\* "-" followed by a digit and whose captured version holds "-".
C20_Witness ==
    /\ rePc = "ret"
    /\ reOut.start.ok
    /\ \E k \in 1..(Len(reOut.start.package) - 1) :
           reOut.start.package[k] = "-" /\ IsDigit(reOut.start.package[k + 1])
    /\ \E k \in 1..Len(reOut.start.version) : reOut.start.version[k] = "-"
    /\ reOut.split = [ok |-> TRUE, package |-> reOut.start.package,
                      version |-> reOut.start.version]

\* ------------------------------------------------------------- latestStart
IsParseableStart(line) == ~line.short /\ line.cat = "start" /\ ~Ts(line).err

\* C11 (as stated): a scan, findCompileHist or findMedDurations, that
\* processes a build-start line with a parseable timestamp sets
\* latestStart[bare package name] to that line's timestamp.
C11_EveryScanSetsLatestStart ==
    IsParseableStart(cur) =>
        /\ cur.pkg \in DOMAIN latestStart
        /\ latestStart[cur.pkg] = Ts(cur).val

\* C11 (amended): findMedDurations sets latestStart[bare package name] to
\* the timestamp of every build-start line with a parseable timestamp and
\* no other line changes latestStart, so latestStart[p] is the timestamp of
\* the last such line for p; findCompileHist never writes latestStart.
C11_OnlyFindMedDurationsSetsLatestStart ==
    /\ (fn = "findMedDurations" /\ IsParseableStart(cur)) =>
           latestStart = MapPut(hPrev.latestStart, cur.pkg, Ts(cur).val)
    /\ (fn = "findMedDurations" /\ ~IsParseableStart(cur)) =>
           latestStart = hPrev.latestStart
    /\ fn = "findCompileHist" => latestStart = EmptyMap

\* C11 witness: findMedDurations replaces the start of a/x stamped 2 by the
\* start of another version of a/x stamped 1, whose build is not completed.
C11_Witness ==
    /\ fn = "findMedDurations"
    /\ IsParseableStart(cur)
    /\ cur.pkg = "a/x"
    /\ "a/x" \in DOMAIN hPrev.latestStart
    /\ hPrev.latestStart["a/x"] = 2
    /\ latestStart["a/x"] = 1
    /\ PkgVer("a/x", "1.0") \in DOMAIN inprogress
    /\ PkgVer("a/x", "2.0") \in DOMAIN inprogress

\* --------------------------------------------------------- runningCompiles
\* process i of the snapshot was inspected alive, passes the worker test and
\* the bare package name that its identifier splits into has a recorded start
Reportable(i) ==
    /\ i \notin rcGone
    /\ IsSandboxWorker(rcProcs[i])
    /\ WorkerOf[rcProcs[i]].split.ok
    /\ Str(WorkerOf[rcProcs[i]].split.package) \in DOMAIN latestStart

\* the record of a reportable process: full identifier, phase, and the
\* recorded start of its bare package name
RecordOf(i) ==
    [pkg |-> Str(BeforeFirst(Tail(rcProcs[i][1]), "]")),
     start |-> Unix(latestStart[Str(WorkerOf[rcProcs[i]].split.package)]),
     phase |-> Str(AfterLast(rcProcs[i][Len(rcProcs[i])], " "))]

\* the records of the reportable processes among the first n, in snapshot order
RECURSIVE RecordsUpTo(_)
RecordsUpTo(n) ==
    IF n = 0 THEN << >>
    ELSE IF Reportable(n) THEN Append(RecordsUpTo(n - 1), RecordOf(n))
    ELSE RecordsUpTo(n - 1)

\* what the caller of runningCompiles receives
Reported == IF rcPc = "returned" THEN rcPkgs ELSE << >>

\* C12: when runningCompiles has ended without an error from processes, it
\* has reported, in snapshot order, exactly the sandbox workers whose bare
\* package name is a key of latestStart, each with its full identifier, its
\* phase and startTime = latestStart[bare package name].
C12_ReportsExactlyWorkersWithRecordedStart ==
    rcPc \in {"returned", "panic"} => Reported = RecordsUpTo(Len(rcProcs))

\* C17: runningCompiles never terminates abnormally: it walks the snapshot,
\* returns the list, or returns an error.
C17_NeverTerminatesAbnormally == rcPc \in {"loop", "returned", "error"}

\* C18: when a process of the snapshot was found gone, the enumeration has
\* gone on: runningCompiles returns no error and reports every other worker
\* of the snapshot whose package has a recorded start.
C18_GoneProcessIsSkippedAlone ==
    (rcGone # {} /\ rcPc # "loop") =>
        /\ rcPc = "returned"
        /\ \A i \in 1..Len(rcProcs) :
               Reportable(i) => \E k \in 1..Len(rcPkgs) : rcPkgs[k] = RecordOf(i)

\* ------------------------------------------------------------- showCurrent
\* the elapsed time that the iteration for key k computed
ElapsedOf(k) == hIter[CHOOSE i \in 1..Len(hIter) : hIter[i].key = k].elapsed

\* C13: the ETA of a record is "unknown" iff the history has no entry for
\* the session's package name; otherwise, with eta = expected - elapsed, it
\* is "any time now" iff eta is negative and else the value eta (rounded to
\* seconds), 0 included.
C13_EtaUnknownImminentOrValue ==
    \A i \in 1..Len(scRet) :
        LET rec == scRet[i]
            pn == scCurr[rec.pkgname].pkgname
            eta == avgDuration(scHist[pn]) - ElapsedOf(rec.pkgname)
        IN  /\ rec.eta.kind = "unknown" <=> pn \notin DOMAIN scHist
            /\ pn \in DOMAIN scHist =>
                   /\ rec.eta.kind = "any time now" <=> eta < 0
                   /\ eta >= 0 => rec.eta = [kind |-> "value", val |-> RoundSec(eta)]

\* C13 witness: a returned list with an "unknown" record, an "any time now"
\* record, and a record whose eta is 0 and is reported as the value 0.
C13_Witness ==
    /\ scPc = "returned"
    /\ \E i \in 1..Len(scRet) : scRet[i].eta.kind = "unknown"
    /\ \E i \in 1..Len(scRet) : scRet[i].eta.kind = "any time now"
    /\ \E i \in 1..Len(scRet) :
           /\ scRet[i].eta = [kind |-> "value", val |-> 0]
           /\ avgDuration(scHist[scCurr[scRet[i].pkgname].pkgname])
                  = ElapsedOf(scRet[i].pkgname)

\* C14: the returned list has exactly one record per entry of the
\* in-progress map and is strictly ascending by package identifier,
\* whatever the order in which the map was walked.
C14_OneRecordPerEntryAscending ==
    scPc = "returned" =>
        /\ Len(scRet) = Cardinality(DOMAIN scCurr)
        /\ { scRet[i].pkgname : i \in 1..Len(scRet) } = DOMAIN scCurr
        /\ \A i \in 1..(Len(scRet) - 1) :
               TextLess(TextOfKey[scRet[i].pkgname], TextOfKey[scRet[i + 1].pkgname])

\* C14 witness: three entries walked in descending order are returned in
\* ascending order.
C14_Witness ==
    /\ scPc = "returned"
    /\ Len(scRet) = 3
    /\ \A i \in 1..3 : hIter[i].key = scRet[4 - i].pkgname

\* -------------------------------------------------------------------- main
\* package name pn matches the pattern: it is the pattern, or category/pattern
NameMatches(pn, pat) == pn = pat \/ \E cat \in {"a", "b"} : pn = cat \o "/" \o pat

InEstimateMode ==
    mnPc = "exited" /\ mnArgs.openOk /\ ~mnArgs.modeCurrent /\ mnArgs.modeEstimate # ""

SomeCompileMatches ==
    \E i \in 1..Len(mnArgs.compiles) :
        NameMatches(mnArgs.compiles[i].pkgname, mnArgs.modeEstimate)

\* C15: in -t mode, when no completed compile matches the pattern main prints
\* the not-found message only and exits with status 2; when one matches it
\* exits with status 0; no other outcome uses status 2, and a log that
\* cannot be opened gives status 1.
C15_NotFoundIsDistinctOutcome ==
    /\ (InEstimateMode /\ ~SomeCompileMatches) =>
           /\ mnExit = 2
           /\ mnOut = <<[kind |-> "not found", pattern |-> mnArgs.modeEstimate]>>
    /\ (InEstimateMode /\ SomeCompileMatches) => mnExit = 0
    /\ (mnPc = "exited" /\ mnExit = 2) => (InEstimateMode /\ ~SomeCompileMatches)
    /\ (mnPc = "exited" /\ ~mnArgs.openOk) => mnExit = 1

\* C15 witness: a log with completed compiles, none of which matches.
C15_Witness ==
    /\ InEstimateMode
    /\ mnArgs.compiles # << >>
    /\ ~SomeCompileMatches
    /\ mnExit = 2

\* ----------------------------------------------------------- failing stream
\* C16: when the log stream has become unreadable during the scan, neither
\* findCompileHist nor parselog returns the result of the lines read so far.
C16_ReadErrorIsFatal == readErr => pc # "done"

\* the session a build-start line stores
SessionOf(line) == NewCompileHist(Dt(line), line.pkg, line.ver)

\* C21: in parselog a line whose message is "*** exiting successfully.",
\* "*** terminating." or a build-start numbered 1 discards every in-flight
\* session before it is processed further and leaves the removal map, the
\* completed list and the DurationHistory as they were: after a build-start
\* numbered 1 the in-flight map holds exactly that line's session, a key is
\* in flight exactly when a build-start line for it was read since the last
\* discarding line and since its last build-complete line, and a
\* build-complete line for a key with no such start appends nothing.
C21_RestartDiscardsInFlight ==
    fn = "parselog" =>
        /\ \A k \in Keys : (k \in DOMAIN inprogress) <=> (hStarts[k] # << >>)
        /\ \A k \in DOMAIN inprogress : Unix(inprogress[k].start) = Last(hStarts[k])
        /\ (lineno > 0 /\ ~cur.short /\ Discards(cur)) =>
               /\ unmerges = hPrev.unmerges
               /\ compiles = hPrev.compiles
               /\ durations = hPrev.durations
               /\ inprogress = IF cur.cat = "start"
                                THEN MapPut(EmptyMap, LineKey(cur), SessionOf(cur))
                                ELSE EmptyMap
        /\ (lineno > 0 /\ IsComplete(cur) /\ hPrev.hStarts[LineKey(cur)] = << >>) =>
               /\ compiles = hPrev.compiles
               /\ durations = hPrev.durations

\* C21 witness: a build-start numbered 1 is read while another key is in
\* flight; afterwards only the new session is
C21_Witness ==
    /\ fn = "parselog"
    /\ lineno = 2
    /\ cur.cat = "start" /\ cur.ith = 1
    /\ DOMAIN hPrev.inprogress = {PkgVer("b/y", "1.0")}
    /\ DOMAIN inprogress = {PkgVer("a/x", "1.0")}
    /\ compiles = << >>


\* the package whose history showCurrent looks up for the session of key k
HistKeyOf(k) == scCurr[k].pkgname

\* C22: no duration list is ever empty: at every point of a scan each key of
\* DurationHistory maps to at least one duration; findMedDurations calls
\* medDuration exactly for the keys of that map; showCurrent calls
\* avgDuration only with the list of a key of the history it was given, and
\* the package-history mode with the list of the package it selected, which
\* is a key of the durations parselog returned; each such list is non-empty.
C22_StatisticsNeverOnEmptyList ==
    /\ \A pn \in DOMAIN durations :
           /\ Len(durations[pn]) >= 1
           /\ (Len(durations[pn]) \div 2) + 1 \in 1..Len(durations[pn])
    /\ (fn = "findMedDurations" /\ pc = "done") => DOMAIN pkg2md = DOMAIN durations
    /\ \A pn \in DOMAIN scHist : Len(scHist[pn]) >= 1
    /\ \A i \in 1..Len(hIter) :
           LET row == CHOOSE r \in {scRet[j] : j \in 1..Len(scRet)} : r.pkgname = hIter[i].key
           IN  (row.eta.kind # "unknown") <=> (HistKeyOf(hIter[i].key) \in DOMAIN scHist)
    /\ (mnPc = "exited" /\ mnArgs.modeEstimate # "" /\ mnExit = 0) =>
           LET f == FilterCompiles(mnArgs.compiles, mnArgs.modeEstimate, FALSE, << >>)
           IN  /\ f.pattern \in DOMAIN mnArgs.durations
               /\ Len(mnArgs.durations[f.pattern]) >= 1

\* C22 witness: a run of main in which showCurrent has averaged the history
\* of a package that is being built again
C22_Witness ==
    /\ fn = "parselog"
    /\ scPc = "returned"
    /\ \E i \in 1..Len(hIter) : HistKeyOf(hIter[i].key) \in DOMAIN scHist
    /\ scHist = durations

\* the DurationHistory of findCompileHist after the first n lines of the
\* recorded log
HistoryAfter(n) == hLog.durs[n + 1]

FirstMatch ==
    CHOOSE i \in 1..Len(mnArgs.compiles) :
        /\ NameMatches(mnArgs.compiles[i].pkgname, mnArgs.modeEstimate)
        /\ \A j \in 1..(i - 1) :
               ~NameMatches(mnArgs.compiles[j].pkgname, mnArgs.modeEstimate)

\* the completed compiles of the package of the first match, in log order
SelectedHistory ==
    LET P == mnArgs.compiles[FirstMatch].pkgname
        IsOfP(c) == c.pkgname = P
    IN  SelectSeq(mnArgs.compiles, IsOfP)

\* C24: -t PATTERN with a match prints exactly the completed compiles, in log
\* order, of the package P of the first completed compile that matches the
\* pattern, none of another package that matches it too; DurationHistory
\* has the key P, as many durations under it as entries were selected, and
\* the average printed is the average of the selected entries' durations.
C24_HistoryOfFirstMatchingPackage ==
    (InEstimateMode /\ SomeCompileMatches) =>
        LET P == mnArgs.compiles[FirstMatch].pkgname
        IN  /\ mnExit = 0
            /\ Len(mnOut) = 2
            /\ mnOut[1] = [kind |-> "history", compiles |-> SelectedHistory]
            /\ P \in DOMAIN mnArgs.durations
            /\ Len(mnArgs.durations[P]) = Len(SelectedHistory)
            /\ mnOut[2] =
                   [kind |-> "average",
                    dur |-> RoundSec(avgDuration([i \in 1..Len(SelectedHistory) |->
                                                     SelectedHistory[i].dur]))]

\* C24 witness: -t x on a log where a/x completes and then b/x: only the
\* entry of a/x is printed
C24_Witness ==
    /\ InEstimateMode
    /\ mnArgs.modeEstimate = "x"
    /\ Len(mnArgs.compiles) = 2
    /\ mnArgs.compiles[1].pkgname = "a/x"
    /\ mnArgs.compiles[2].pkgname = "b/x"
    /\ mnOut[1] = [kind |-> "history", compiles |-> <<mnArgs.compiles[1]>>]

\* C25: findMainProc on a finite chain of ancestors reads the command lines
\* of successive ancestors, each further up than the one before and none
\* twice, and so ends after at most as many iterations as the process has
\* ancestors.
C25_VisitsSuccessiveAncestors ==
    /\ \A i, j \in 1..Len(fmSeen) : i < j => fmSeen[i] < fmSeen[j]
    /\ Len(fmSeen) <= Len(fmProcs)

====
